---- MODULE Spec2Model ----
(***************************************************************************)
(* Model of the UiPath synchronisation engine (uipath_etl/client.py): the   *)
(* UiPathClient object, its three run entry points, the upstream           *)
(* Orchestrator API it reads and the MySQL tables it writes.               *)
(***************************************************************************)
EXTENDS Integers, Sequences, FiniteSets, TLC

\* ------------------------------------------------------------------ bounds
MaxRuns == 2        \* run entry points invoked in one behaviour
MaxEvents == 1      \* environment events in one behaviour: failing network or
                    \* database calls, upstream edits, configuration updates

\* ------------------------------------------------------------------ values
None == "None"

NoToken == 0

\* The client objects; Solo is the one that runs alone.
Clients == {"c1", "c2"}
Solo == {"c1"}

Modes == {"full", "update", "jobs"}

\* Python truthiness of a configuration value: None and "" are falsy.
Truthy(v) == v \notin {None, ""}

\* ------------------------------------------------------------------ timestamps
\* An upstream timestamp string: absent (null), malformed (bad), or an ISO
\* string with wall-clock seconds, microseconds and a UTC offset in seconds.
NullTs == [k |-> "null", sec |-> 0, us |-> 0, off |-> 0]
BadTs == [k |-> "bad", sec |-> 0, us |-> 0, off |-> 0]
Ts(sec, us, off) == [k |-> "ts", sec |-> sec, us |-> us, off |-> off]

\* datetime.fromisoformat(s.replace("Z", "+00:00")): ok is FALSE on ValueError.
fromisoformat(s) ==
    IF s.k = "ts" THEN [ok |-> TRUE, sec |-> s.sec, us |-> s.us, off |-> s.off]
    ELSE [ok |-> FALSE, sec |-> 0, us |-> 0, off |-> 0]

\* Mutant: a malformed string is parsed as the boundary date instead of None.
parse_dt_Lenient(s) ==
    IF s.k = "null" THEN [ok |-> FALSE, sec |-> 0, us |-> 0]
    ELSE LET dt == fromisoformat(s)
         IN IF dt.ok THEN [ok |-> TRUE, sec |-> dt.sec, us |-> dt.us]
            ELSE [ok |-> TRUE, sec |-> 0, us |-> 0]

\* parse_dt: None for a falsy or malformed string, else the naive datetime
\* (tzinfo dropped by replace(tzinfo=None): the wall-clock fields are kept).
parse_dt(s) ==
    IF s.k = "null" THEN [ok |-> FALSE, sec |-> 0, us |-> 0]
    ELSE LET dt == fromisoformat(s)
         IN IF dt.ok THEN [ok |-> TRUE, sec |-> dt.sec, us |-> dt.us]
            ELSE [ok |-> FALSE, sec |-> 0, us |-> 0]

\* clean_date: strftime('%Y-%m-%d %H:%M:%S.%f') of the parsed value, None for
\* a falsy or malformed string. The offset is not part of the format.
clean_date(s) ==
    IF s.k = "null" THEN [k |-> "null", sec |-> 0, us |-> 0]
    ELSE LET dt == fromisoformat(s)
         IN IF dt.ok THEN [k |-> "ts", sec |-> dt.sec, us |-> dt.us]
            ELSE [k |-> "null", sec |-> 0, us |-> 0]

\* A timedelta of dsec seconds and dus microseconds, normalised as Python
\* does: 0 <= seconds < 86400 and 0 <= microseconds < 1000000, the sign
\* carried by days.
timedelta(dsec, dus) ==
    LET s == dsec + (dus \div 1000000)
    IN [days |-> s \div 86400,
        seconds |-> s % 86400,
        microseconds |-> dus % 1000000]

\* str(timedelta).split('.')[0]: "D day(s), H:MM:SS" with the fraction cut.
NoDuration == [k |-> "null", days |-> 0, h |-> 0, m |-> 0, s |-> 0]

\* Mutant: the fraction is rounded to the nearest second instead of cut.
DurationStr_Rounded(a, b) ==
    LET td == timedelta(a.sec - b.sec + 1, a.us - b.us - 500000)
    IN [k |-> "str", days |-> td.days, h |-> td.seconds \div 3600,
        m |-> (td.seconds % 3600) \div 60, s |-> td.seconds % 60]

DurationStr(a, b) ==
    LET td == timedelta(a.sec - b.sec, a.us - b.us)
    IN [k |-> "str", days |-> td.days, h |-> td.seconds \div 3600,
        m |-> (td.seconds % 3600) \div 60, s |-> td.seconds % 60]

\* DATETIME column (no fractional digits): MySQL rounds the fraction.
StoreDatetime(v) ==
    IF v.k = "null" THEN [k |-> "null", sec |-> 0]
    ELSE [k |-> "ts", sec |-> IF v.us * 2 >= 1000000 THEN v.sec + 1 ELSE v.sec]

\* ------------------------------------------------------------------ upstream
\* The folder listing of the tenant, in the order the API returns it.
FolderListing == <<1, 2, 3>>

\* The folder an upstream queue item lives in.
FolderOf(id) == IF id \in {42, 45} THEN 2 ELSE IF id = 43 THEN 3 ELSE 1

\* Wall-clock seconds are counted from the boundary date of the extraction
\* filter (2025-12-15T00:00:00).
T0 == Ts(3600, 0, 0)
T1 == Ts(4200, 0, 0)
T2 == Ts(7800, 0, 0)

\* A raw queue item as the OData endpoint returns it.
RawItem(id, status, prio, start, end) ==
    [Id |-> id, QueueDefinitionId |-> 7, Key |-> id, Status |-> status,
     Reference |-> "ref", Priority |-> prio, DeferDate |-> NullTs,
     StartProcessing |-> start, EndProcessing |-> end,
     SecondsInPreviousAttempts |-> 0, RetryNumber |-> 0,
     CreationTime |-> T0, OrganizationUnitId |-> FolderOf(id)]

\* Lifecycle of an upstream item: New -> InProgress -> Successful.
Advance(it) ==
    IF it.Status = "New" THEN [it EXCEPT !.Status = "InProgress", !.StartProcessing = T1]
    ELSE IF it.Status = "InProgress" THEN [it EXCEPT !.Status = "Successful", !.EndProcessing = T2]
    ELSE it

\* Upstream jobs of a folder (static), newest first.
UpstreamJobs(f) ==
    IF f = 1 THEN << [Key |-> "j1", OrganizationUnitId |-> 1, State |-> "Successful",
                      StartTime |-> T1, HasMediaRecorded |-> None] >>
    ELSE IF f = 2 THEN << [Key |-> "j3", OrganizationUnitId |-> 2, State |-> "Running",
                           StartTime |-> T2, HasMediaRecorded |-> "True"],
                          [Key |-> "j2", OrganizationUnitId |-> 2, State |-> "Faulted",
                           StartTime |-> BadTs, HasMediaRecorded |-> "False"] >>
    ELSE << >>

\* ------------------------------------------------------------------ extraction
\* The query each extractor sends (the same literal parameters in both
\* queue-item extractors).
QueueItemParams ==
    [orderby |-> "Id desc", top |-> 100, skip |-> 0,
     filter |-> "(CreationTime gt 2025-12-15 or StartProcessing gt 2025-12-15 or EndProcessing lt 2025-12-15)"]

\* Mutant: the update extractor selects the items still being processed.
FilteredQueueItemParams_Open ==
    [orderby |-> "Id desc", top |-> 100, skip |-> 0, filter |-> "(EndProcessing eq null)"]

FilteredQueueItemParams ==
    [orderby |-> "Id desc", top |-> 100, skip |-> 0,
     filter |-> "(CreationTime gt 2025-12-15 or StartProcessing gt 2025-12-15 or EndProcessing lt 2025-12-15)"]

JobParams == [orderby |-> "CreationTime desc", top |-> 1000, skip |-> 0, filter |-> ""]

\* The upstream's evaluation of the $filter of a queue-item query.
MatchesFilter(filter, it) ==
    IF filter = ""
    THEN TRUE
    ELSE IF filter = "(EndProcessing eq null)"
    THEN it.EndProcessing.k = "null"
    ELSE \/ (it.CreationTime.k = "ts" /\ it.CreationTime.sec > 0)
         \/ (it.StartProcessing.k = "ts" /\ it.StartProcessing.sec > 0)
         \/ (it.EndProcessing.k = "ts" /\ it.EndProcessing.sec < 0)

\* The ids of a set in descending order ($orderby=Id desc): the i-th is the
\* one with i - 1 larger ids. (@@ << >> tabulates the counts once.)
IdDesc(S) ==
    LET larger == [x \in S |-> Cardinality({y \in S : y > x})] @@ << >>
    IN [i \in 1..Cardinality(S) |-> CHOOSE x \in S : larger[x] = i - 1]

\* Mutant: $top is not applied, everything after $skip is returned.
Page_NoCap(seq, skip, top) == SubSeq(seq, skip + 1, Len(seq))

\* $skip / $top windowing of an ordered result.
Page(seq, skip, top) ==
    SubSeq(seq, skip + 1, IF Len(seq) < skip + top THEN Len(seq) ELSE skip + top)

\* The 'value' array the queueitems endpoint answers for a folder.
QueueItemsResponse(items, f, params) ==
    LET ids == {id \in DOMAIN items :
                   /\ items[id].OrganizationUnitId = f
                   /\ MatchesFilter(params.filter, items[id])}
        ordered == IdDesc(ids)
    IN Page([i \in 1..Len(ordered) |-> items[ordered[i]]], params.skip, params.top)

JobsResponse(f, params) == Page(UpstreamJobs(f), params.skip, params.top)

\* Mutant: the except branch re-raises instead of returning [].
get_queue_items_Raise(resp) ==
    IF resp.ok THEN [raised |-> "none", items |-> resp.value, logged |-> FALSE]
    ELSE [raised |-> "RequestException", items |-> << >>, logged |-> TRUE]

\* get_queue_items / get_filtered_queue_items / get_jobs: the 'value' array
\* on success, [] on a RequestException (logged); nothing is raised.
get_queue_items(resp) ==
    IF resp.ok THEN [raised |-> "none", items |-> resp.value, logged |-> FALSE]
    ELSE [raised |-> "none", items |-> << >>, logged |-> TRUE]

get_filtered_queue_items(resp) ==
    IF resp.ok THEN [raised |-> "none", items |-> resp.value, logged |-> FALSE]
    ELSE [raised |-> "none", items |-> << >>, logged |-> TRUE]

get_jobs(resp) ==
    IF resp.ok THEN [raised |-> "none", items |-> resp.value, logged |-> FALSE]
    ELSE [raised |-> "none", items |-> << >>, logged |-> TRUE]

\* Mutant: the except branch returns [] as the per-folder extractors do.
get_folders_Swallow(resp) ==
    IF resp.ok THEN [raised |-> "none", folders |-> resp.value]
    ELSE [raised |-> "none", folders |-> << >>]

\* get_folders: the listing on success; a RequestException is logged and re-raised.
get_folders(resp) ==
    IF resp.ok THEN [raised |-> "none", folders |-> resp.value]
    ELSE [raised |-> "RequestException", folders |-> << >>]

\* Mutant: the except branch only logs; the error is not re-raised.
authenticate_Swallow(old, resp) ==
    IF resp.kind = "ok" THEN [raised |-> "none", token |-> resp.token]
    ELSE IF resp.kind = "notoken" THEN [raised |-> "none", token |-> NoToken]
    ELSE [raised |-> "none", token |-> old]

\* authenticate: stores response.json().get('access_token') (None when the
\* body has no token); an HTTP error status is logged and re-raised; when
\* requests.post itself raised, `response` is unbound in the handler and the
\* `if response:` test raises UnboundLocalError instead.
authenticate(old, resp) ==
    IF resp.kind = "ok" THEN [raised |-> "none", token |-> resp.token]
    ELSE IF resp.kind = "notoken" THEN [raised |-> "none", token |-> NoToken]
    ELSE IF resp.kind = "http_error" THEN [raised |-> "RequestException", token |-> old]
    ELSE [raised |-> "UnboundLocalError", token |-> old]

\* ------------------------------------------------------------------ transformation
\* transform_data for one raw item.
MapItem(item, folder_id) ==
    LET s_dt == parse_dt(item.StartProcessing)
        e_dt == parse_dt(item.EndProcessing)
        c_dt == parse_dt(item.CreationTime)
    IN [id |-> item.Id,
        queue_definition_id |-> item.QueueDefinitionId,
        folder_id |-> folder_id,
        key |-> item.Key,
        status |-> item.Status,
        reference |-> item.Reference,
        priority |-> item.Priority,
        defer_date |-> clean_date(item.DeferDate),
        start_processing |-> clean_date(item.StartProcessing),
        end_processing |-> clean_date(item.EndProcessing),
        seconds_prev_attempts |-> item.SecondsInPreviousAttempts,
        retry_number |-> item.RetryNumber,
        creation_time |-> clean_date(item.CreationTime),
        org_unit_id |-> item.OrganizationUnitId,
        run_duration |-> IF s_dt.ok /\ e_dt.ok THEN DurationStr(e_dt, s_dt) ELSE NoDuration,
        waiting_duration |-> IF s_dt.ok /\ c_dt.ok THEN DurationStr(s_dt, c_dt) ELSE NoDuration]

\* Mutant: a record with a malformed timestamp is skipped.
transform_data_SkipBad(queue_items, folder_id) ==
    LET good == SelectSeq(queue_items, LAMBDA it :
                    /\ it.StartProcessing.k # "bad" /\ it.EndProcessing.k # "bad"
                    /\ it.CreationTime.k # "bad" /\ it.DeferDate.k # "bad")
    IN [i \in 1..Len(good) |-> MapItem(good[i], folder_id)]

\* transform_data: one mapped record per raw item, in the order of the page.
transform_data(queue_items, folder_id) ==
    [i \in 1..Len(queue_items) |-> MapItem(queue_items[i], folder_id)]

\* to_int_bool: None -> 0, else 1 if truthy else 0.
to_int_bool(val) == IF val = None THEN 0 ELSE IF val = "True" THEN 1 ELSE 0

\* Mutant: the identifier is derived from the position in the page, the same
\* on every run.
transform_jobs_StableId(jobs, base) ==
    [i \in 1..Len(jobs) |->
        [id |-> jobs[i].OrganizationUnitId * 10 + i,
         folder_id |-> jobs[i].OrganizationUnitId,
         key_uuid |-> jobs[i].Key,
         start_time |-> clean_date(jobs[i].StartTime),
         state |-> jobs[i].State,
         has_media_recorded |-> to_int_bool(jobs[i].HasMediaRecorded),
         organization_unit_id |-> jobs[i].OrganizationUnitId]]

\* transform_jobs: every record gets a freshly generated uuid4; `base` is the
\* number of identifiers generated so far.
transform_jobs(jobs, base) ==
    [i \in 1..Len(jobs) |->
        [id |-> base + i,
         folder_id |-> jobs[i].OrganizationUnitId,
         key_uuid |-> jobs[i].Key,
         start_time |-> clean_date(jobs[i].StartTime),
         state |-> jobs[i].State,
         has_media_recorded |-> to_int_bool(jobs[i].HasMediaRecorded),
         organization_unit_id |-> jobs[i].OrganizationUnitId]]

\* ------------------------------------------------------------------ persistence
\* The row a first INSERT of a record writes into queue_items: DATETIME
\* columns coerce the string, inserted_at takes CURRENT_TIMESTAMP.
NewQueueRow(rec, now) ==
    [id |-> rec.id,
     queue_definition_id |-> rec.queue_definition_id,
     folder_id |-> rec.folder_id,
     key |-> rec.key,
     status |-> rec.status,
     reference |-> rec.reference,
     priority |-> rec.priority,
     defer_date |-> StoreDatetime(rec.defer_date),
     start_processing |-> StoreDatetime(rec.start_processing),
     end_processing |-> StoreDatetime(rec.end_processing),
     seconds_prev_attempts |-> rec.seconds_prev_attempts,
     retry_number |-> rec.retry_number,
     creation_time |-> StoreDatetime(rec.creation_time),
     org_unit_id |-> rec.org_unit_id,
     run_duration |-> rec.run_duration,
     waiting_duration |-> rec.waiting_duration,
     inserted_at |-> now]

\* Mutant: end_processing is missing from the update list.
OnDuplicateKeyUpdate_NoEnd(row, rec) ==
    [row EXCEPT !.status = rec.status,
                !.start_processing = StoreDatetime(rec.start_processing),
                !.run_duration = rec.run_duration,
                !.waiting_duration = rec.waiting_duration]

\* Mutant: the update list names every non-key column, as the jobs statement does.
OnDuplicateKeyUpdate_All(row, rec) ==
    [row EXCEPT !.queue_definition_id = rec.queue_definition_id,
                !.folder_id = rec.folder_id,
                !.key = rec.key,
                !.status = rec.status,
                !.reference = rec.reference,
                !.priority = rec.priority,
                !.defer_date = StoreDatetime(rec.defer_date),
                !.start_processing = StoreDatetime(rec.start_processing),
                !.end_processing = StoreDatetime(rec.end_processing),
                !.seconds_prev_attempts = rec.seconds_prev_attempts,
                !.retry_number = rec.retry_number,
                !.creation_time = StoreDatetime(rec.creation_time),
                !.org_unit_id = rec.org_unit_id,
                !.run_duration = rec.run_duration,
                !.waiting_duration = rec.waiting_duration]

\* Mutant: the update is applied only when the incoming record is not behind
\* the row in its lifecycle.
OnDuplicateKeyUpdate_IfNewer(row, rec) ==
    IF (IF rec.status = "New" THEN 0 ELSE IF rec.status = "InProgress" THEN 1 ELSE 2)
         >= (IF row.status = "New" THEN 0 ELSE IF row.status = "InProgress" THEN 1 ELSE 2)
    THEN [row EXCEPT !.status = rec.status,
                     !.start_processing = StoreDatetime(rec.start_processing),
                     !.end_processing = StoreDatetime(rec.end_processing),
                     !.run_duration = rec.run_duration,
                     !.waiting_duration = rec.waiting_duration]
    ELSE row

\* ON DUPLICATE KEY UPDATE of insert_data: the five listed columns take the
\* incoming values, every other column keeps what the row holds.
OnDuplicateKeyUpdate(row, rec) ==
    [row EXCEPT !.status = rec.status,
                !.start_processing = StoreDatetime(rec.start_processing),
                !.end_processing = StoreDatetime(rec.end_processing),
                !.run_duration = rec.run_duration,
                !.waiting_duration = rec.waiting_duration]

\* Mutant: the table has no primary key, every tuple is inserted.
UpsertQueueRow_NoKey(t, rec, now) ==
    [table |-> t.table \cup {NewQueueRow(rec, now)}, rowcount |-> t.rowcount + 1]

\* Mutant: REPLACE INTO semantics, a conflicting row is deleted and re-inserted.
UpsertQueueRow_Replace(t, rec, now) ==
    IF \E r \in t.table : r.id = rec.id
    THEN LET old == CHOOSE r \in t.table : r.id = rec.id
         IN [table |-> (t.table \ {old}) \cup {NewQueueRow(rec, now)},
             rowcount |-> t.rowcount + 2]
    ELSE [table |-> t.table \cup {NewQueueRow(rec, now)},
          rowcount |-> t.rowcount + 1]

\* One VALUES tuple of the INSERT against the PRIMARY KEY (id) of queue_items.
\* rowcount follows MySQL: 1 for an inserted row, 2 for an updated row, 0 for
\* an existing row set to the values it already holds.
UpsertQueueRow(t, rec, now) ==
    IF \E r \in t.table : r.id = rec.id
    THEN LET old == CHOOSE r \in t.table : r.id = rec.id
             new == OnDuplicateKeyUpdate(old, rec)
         IN [table |-> (t.table \ {old}) \cup {new},
             rowcount |-> t.rowcount + (IF new = old THEN 0 ELSE 2)]
    ELSE [table |-> t.table \cup {NewQueueRow(rec, now)},
          rowcount |-> t.rowcount + 1]

\* executemany: the tuples of the batch are applied in order, each one
\* before the next is looked at (an affected-row count is never negative):
\* the first half of the batch, then the second half on what that left.
RECURSIVE ExecManyQueue(_, _, _)
ExecManyQueue(t, data, now) ==
    IF data = << >> THEN t
    ELSE IF Len(data) = 1 THEN UpsertQueueRow(t, data[1], now)
    ELSE LET half == Len(data) \div 2
             applied == ExecManyQueue(t, SubSeq(data, 1, half), now)
         IN IF applied.rowcount >= 0
            THEN ExecManyQueue(applied, SubSeq(data, half + 1, Len(data)), now)
            ELSE applied

\* What a call hands back to its caller: None, or a count.
NoReturn == [none |-> TRUE, count |-> 0]
Count(n) == [none |-> FALSE, count |-> n]

\* A statement on the client's connection succeeds when the connection
\* object is connected and the server raises no error.
DbOk(conn, dbres) == conn = "open" /\ dbres = "ok"

\* Mutant: the except branch logs and re-raises.
insert_data_Raise(conn, table, data, dbres, now) ==
    IF conn = None \/ data = << >>
    THEN [table |-> table, executed |-> FALSE, ok |-> FALSE, rowcount |-> 0,
          logged |-> FALSE, raised |-> "none", ret |-> NoReturn]
    ELSE IF conn = "open" /\ dbres = "ok"
    THEN LET t == ExecManyQueue([table |-> table, rowcount |-> 0], data, now)
         IN [table |-> t.table, executed |-> TRUE, ok |-> TRUE, rowcount |-> t.rowcount,
             logged |-> FALSE, raised |-> "none", ret |-> NoReturn]
    ELSE [table |-> table, executed |-> TRUE, ok |-> FALSE, rowcount |-> 0,
          logged |-> TRUE, raised |-> "Error", ret |-> NoReturn]

\* Mutant: only the connection is tested before the statement is issued.
insert_data_NoEmptyCheck(conn, table, data, dbres, now) ==
    IF conn = None
    THEN [table |-> table, executed |-> FALSE, ok |-> FALSE, rowcount |-> 0,
          logged |-> FALSE, raised |-> "none", ret |-> NoReturn]
    ELSE IF DbOk(conn, dbres)
    THEN LET t == ExecManyQueue([table |-> table, rowcount |-> 0], data, now)
         IN [table |-> t.table, executed |-> TRUE, ok |-> TRUE, rowcount |-> t.rowcount,
             logged |-> FALSE, raised |-> "none", ret |-> NoReturn]
    ELSE [table |-> table, executed |-> TRUE, ok |-> FALSE, rowcount |-> 0,
          logged |-> TRUE, raised |-> "none", ret |-> NoReturn]

\* insert_data: nothing is done without a connection object or with an empty
\* batch; otherwise one executemany + commit, whose mysql.connector.Error is
\* caught and logged. The statement is atomic: a failing batch writes nothing.
\* No path returns a value: the affected-row count is only logged.
insert_data(conn, table, data, dbres, now) ==
    IF conn = None \/ data = << >>
    THEN [table |-> table, executed |-> FALSE, ok |-> FALSE, rowcount |-> 0,
          logged |-> FALSE, raised |-> "none", ret |-> NoReturn]
    ELSE IF DbOk(conn, dbres)
    THEN LET t == ExecManyQueue([table |-> table, rowcount |-> 0], data, now)
         IN [table |-> t.table, executed |-> TRUE, ok |-> TRUE, rowcount |-> t.rowcount,
             logged |-> FALSE, raised |-> "none", ret |-> NoReturn]
    ELSE [table |-> table, executed |-> TRUE, ok |-> FALSE, rowcount |-> 0,
          logged |-> TRUE, raised |-> "none", ret |-> NoReturn]

\* The jobs statement: every column except id is in the update clause.
UpsertJobRow(t, rec) ==
    IF \E r \in t.table : r.id = rec.id
    THEN LET old == CHOOSE r \in t.table : r.id = rec.id
         IN [table |-> (t.table \ {old}) \cup {rec},
             rowcount |-> t.rowcount + (IF rec = old THEN 0 ELSE 2)]
    ELSE [table |-> t.table \cup {rec}, rowcount |-> t.rowcount + 1]

RECURSIVE ExecManyJobs(_, _)
ExecManyJobs(t, data) ==
    IF data = << >> THEN t
    ELSE ExecManyJobs(UpsertJobRow(t, Head(data)), Tail(data))

\* Mutant: the except branch logs and re-raises.
insert_jobs_Raise(conn, table, data, dbres) ==
    IF conn = None \/ data = << >>
    THEN [table |-> table, executed |-> FALSE, ok |-> FALSE, rowcount |-> 0,
          logged |-> FALSE, raised |-> "none", ret |-> NoReturn]
    ELSE IF conn = "open" /\ dbres = "ok"
    THEN LET t == ExecManyJobs([table |-> table, rowcount |-> 0], data)
         IN [table |-> t.table, executed |-> TRUE, ok |-> TRUE, rowcount |-> t.rowcount,
             logged |-> FALSE, raised |-> "none", ret |-> NoReturn]
    ELSE [table |-> table, executed |-> TRUE, ok |-> FALSE, rowcount |-> 0,
          logged |-> TRUE, raised |-> "Error", ret |-> NoReturn]

\* insert_jobs: as insert_data, with the jobs statement.
insert_jobs(conn, table, data, dbres) ==
    IF conn = None \/ data = << >>
    THEN [table |-> table, executed |-> FALSE, ok |-> FALSE, rowcount |-> 0,
          logged |-> FALSE, raised |-> "none", ret |-> NoReturn]
    ELSE IF DbOk(conn, dbres)
    THEN LET t == ExecManyJobs([table |-> table, rowcount |-> 0], data)
         IN [table |-> t.table, executed |-> TRUE, ok |-> TRUE, rowcount |-> t.rowcount,
             logged |-> FALSE, raised |-> "none", ret |-> NoReturn]
    ELSE [table |-> table, executed |-> TRUE, ok |-> FALSE, rowcount |-> 0,
          logged |-> TRUE, raised |-> "none", ret |-> NoReturn]

\* ------------------------------------------------------------------ configuration
NoConfig ==
    [base_url |-> None, client_id |-> None, client_secret |-> None,
     org |-> None, tenant |-> None, scope |-> None]

GoodConfig ==
    [base_url |-> "https://cloud", client_id |-> "id", client_secret |-> "secret",
     org |-> "org", tenant |-> "tenant", scope |-> "OR.Queues"]

\* The payloads the administrative endpoint is given.
ConfigInputs ==
    {GoodConfig, [GoodConfig EXCEPT !.client_secret = ""]}

\* Mutant: client_secret is missing from the list the gate tests.
ConfigGate_NoSecret(cfg) ==
    /\ Truthy(cfg.client_id)
    /\ Truthy(cfg.org)
    /\ Truthy(cfg.tenant)

\* The gate of the run entry points: all([client_id, client_secret, org, tenant]).
ConfigGate(cfg) ==
    /\ Truthy(cfg.client_id)
    /\ Truthy(cfg.client_secret)
    /\ Truthy(cfg.org)
    /\ Truthy(cfg.tenant)

\* load_config: without a connection object nothing is read; otherwise the
\* latest row of uipath_configuration replaces the six fields, and an empty
\* table or a mysql.connector.Error leaves them as they are.
load_config(cfg, conn, rows, dbres) ==
    IF conn = None THEN cfg
    ELSE IF ~DbOk(conn, dbres) THEN cfg
    ELSE IF rows = << >> THEN cfg
    ELSE rows[Len(rows)]

\* ------------------------------------------------------------------ state
VARIABLES
    upItems,              \* upstream queue items: id -> raw item
    upEpoch,              \* number of upstream edits so far
    queue_items,          \* table queue_items: set of rows
    jobs,                 \* table jobs: set of rows
    uipath_configuration, \* table uipath_configuration: rows in id order
    uuids,                \* number of uuid4 identifiers generated so far
    cfg,                  \* client -> base_url, client_id, client_secret, org, tenant, scope
    access_token,         \* client -> bearer token
    db_conn,              \* client -> None, "open", "closed" or "lost"
    pc,                   \* client -> position in the run
    mode,                 \* client -> entry point of the current / last run
    folders,              \* client -> listing fetched by the run
    idx,                  \* client -> position of the folder loop
    page,                 \* client -> raw records the extractor returned for the folder
    batch,                \* client -> transformed records awaiting the insert
    all_data,             \* client -> all_queue_data / all_jobs_data
    outcome,              \* client -> how the last entry point ended
    trace,                \* client -> calls made by the current / last run
    atStart,              \* client -> the tables and the client's settings as the
                          \* current / last run found them
    prevRun,              \* client -> summary of the run before the current / last one
    req,                  \* request -> the administrative service call it is serving
    pool,                 \* connections of the shared pool that are checked out
    runs, events

vars == <<upItems, upEpoch, queue_items, jobs, uipath_configuration, uuids, cfg,
          access_token, db_conn, pc, mode, folders, idx, page, batch, all_data, outcome,
          trace, atStart, prevRun, req, pool, runs, events>>

upstreamVars == <<upItems, upEpoch>>
tableVars == <<queue_items, jobs>>
loopVars == <<folders, idx, page, batch, all_data>>
histVars == <<atStart, prevRun>>

\* One call of a run, as the run's trace records it.
Ev(op, folder, tok, ok) ==
    [op |-> op, folder |-> folder, tok |-> tok, ok |-> ok, n |-> 0, ids |-> << >>,
     exec |-> TRUE, rowcount |-> 0, logged |-> ~ok, ret |-> NoReturn, filter |-> ""]

\* No fetch of the run failed and every non-empty batch was written.
CleanRun(tr) ==
    \A i \in 1..Len(tr) : tr[i].op \in {"fetch", "persist"} => tr[i].ok

\* The requests the administrative API serves at the same time, and a
\* worker that serves none.
Requests == {"r1", "r2"}

NoRequest == [op |-> "none", pc |-> "idle", data |-> NoConfig, ok |-> FALSE, result |-> NoConfig]

InitialItems ==
    (41 :> RawItem(41, "New", "Normal", NullTs, NullTs)) @@
    (42 :> RawItem(42, "InProgress", "High", T1, NullTs)) @@
    (43 :> RawItem(43, "New", "Normal", NullTs, NullTs)) @@
    (44 :> RawItem(44, "Successful", "Normal", T1, T2))

Init ==
    /\ upItems = InitialItems
    /\ upEpoch = 0
    /\ queue_items = {}
    /\ jobs = {}
    /\ uipath_configuration \in {<< >>, <<GoodConfig>>}
    /\ uuids = 0
    /\ cfg = [c \in Clients |-> NoConfig]
    /\ access_token = [c \in Clients |-> NoToken]
    /\ db_conn = [c \in Clients |-> None]
    /\ pc = [c \in Clients |-> "idle"]
    /\ mode = [c \in Clients |-> "full"]
    /\ folders = [c \in Clients |-> << >>]
    /\ idx = [c \in Clients |-> 1]
    /\ page = [c \in Clients |-> << >>]
    /\ batch = [c \in Clients |-> << >>]
    /\ all_data = [c \in Clients |-> << >>]
    /\ outcome = [c \in Clients |-> "none"]
    /\ trace = [c \in Clients |-> << >>]
    /\ atStart = [c \in Clients |-> [queue_items |-> {}, jobs |-> {}, epoch |-> 0, cfg |-> NoConfig,
                                   stored |-> << >>]]
    /\ prevRun = [c \in Clients |-> [mode |-> "full", outcome |-> "none", epoch |-> 0, clean |-> FALSE]]
    /\ req = [r \in Requests |-> NoRequest]
    /\ pool = 0
    /\ runs = 0
    /\ events = 0

\* ------------------------------------------------------------------ environment
\* The upstream platform creates an item, moves one along its lifecycle or
\* edits a descriptive field of it. The engine reads the upstream items only
\* in a fetch, so an edit made at any moment is the same as that edit made
\* right before the next fetch: edits are scheduled there.
UpstreamChange ==
    /\ events < MaxEvents
    /\ \E c \in Clients : pc[c] = "fetch"
    /\ \/ /\ 45 \notin DOMAIN upItems
          /\ upItems' = upItems @@ (45 :> RawItem(45, "New", "Low", NullTs, NullTs))
       \/ \E id \in DOMAIN upItems :
             /\ Advance(upItems[id]) # upItems[id]
             /\ upItems' = [upItems EXCEPT ![id] = Advance(upItems[id])]
       \/ /\ upItems[42].Priority # "Low"
          /\ upItems' = [upItems EXCEPT ![42].Priority = "Low"]
    /\ upEpoch' = upEpoch + 1
    /\ events' = events + 1
    /\ UNCHANGED <<req, pool, tableVars, uipath_configuration, uuids, cfg, access_token, db_conn, pc,
                   mode, loopVars, outcome, trace, histVars, runs>>

\* ConfigurationService.update_config: a new row, never an update in place.
\* The engine reads the table only in connect_db, so updates are scheduled
\* where a connect_db can follow.
update_config ==
    /\ events < MaxEvents
    /\ \E c \in Clients : pc[c] \in {"idle", "connect"}
    /\ \E data \in ConfigInputs :
          uipath_configuration' = Append(uipath_configuration, data)
    /\ events' = events + 1
    /\ UNCHANGED <<req, pool, upstreamVars, tableVars, uuids, cfg, access_token, db_conn, pc,
                   mode, loopVars, outcome, trace, histVars, runs>>

\* UiPathClient(): a fresh object, every field None.
NewClient(c) ==
    /\ pc[c] = "idle"
    /\ cfg' = [cfg EXCEPT ![c] = NoConfig]
    /\ access_token' = [access_token EXCEPT ![c] = NoToken]
    /\ db_conn' = [db_conn EXCEPT ![c] = None]
    /\ UNCHANGED <<req, pool, upstreamVars, tableVars, uipath_configuration, uuids, pc, mode,
                   loopVars, outcome, trace, histVars, runs, events>>

\* connect_db: a failed connect is logged and leaves db_conn as it was; a
\* successful one replaces db_conn and then calls load_config.
connect_db(c, connres, loadres) ==
    /\ db_conn' = [db_conn EXCEPT ![c] = IF connres = "ok" THEN "open" ELSE @]
    /\ cfg' = [cfg EXCEPT ![c] = IF connres = "ok"
                                 THEN load_config(@, "open", uipath_configuration, loadres)
                                 ELSE @]

\* The choices of the database server for connect_db, and what they cost.
ConnectChoices == {<<"ok", "ok">>, <<"ok", "error">>, <<"fail", "ok">>}

\* A caller invokes connect_db() on an idle client.
CallConnectDb(c) ==
    /\ pc[c] = "idle"
    /\ \E ch \in ConnectChoices :
          /\ ch # <<"ok", "ok">> => events < MaxEvents
          /\ connect_db(c, ch[1], ch[2])
          /\ events' = IF ch = <<"ok", "ok">> THEN events ELSE events + 1
    /\ UNCHANGED <<req, pool, upstreamVars, tableVars, uipath_configuration, uuids, access_token, pc,
                   mode, loopVars, outcome, trace, histVars, runs>>

\* Mutant: a failed call is retried from the authentication on.
Raise_Retry(c) ==
    /\ pc' = [pc EXCEPT ![c] = "auth"]
    /\ outcome' = outcome

\* ------------------------------------------------------------------ the run entry points
\* An exception leaves the entry point: the run ends where it is.
Raise(c) ==
    /\ pc' = [pc EXCEPT ![c] = "idle"]
    /\ outcome' = [outcome EXCEPT ![c] = "raised"]

\* Mutant: the loop leaves before the last listed folder.
AfterFolder_SkipLast(c, i) == IF i >= Len(folders[c]) THEN "finish" ELSE "fetch"

\* for folder in folders: the next folder, or the code after the loop.
AfterFolder(c, i) == IF i > Len(folders[c]) THEN "finish" ELSE "fetch"

\* run_etl / run_update_job / run_jobs_etl, up to the gate: with a required
\* field missing the entry point logs and returns None.
RunStart(c, m) ==
    /\ pc[c] = "idle"
    /\ runs < MaxRuns
    /\ runs' = runs + 1
    /\ mode' = [mode EXCEPT ![c] = m]
    /\ prevRun' = [prevRun EXCEPT ![c] = [mode |-> mode[c], outcome |-> outcome[c],
                                          epoch |-> atStart[c].epoch,
                                          clean |-> CleanRun(trace[c])]]
    /\ atStart' = [atStart EXCEPT ![c] = [queue_items |-> queue_items, jobs |-> jobs,
                                          epoch |-> upEpoch, cfg |-> cfg[c],
                                          stored |-> uipath_configuration]]
    /\ trace' = [trace EXCEPT ![c] = << >>]
    /\ folders' = [folders EXCEPT ![c] = << >>]
    /\ idx' = [idx EXCEPT ![c] = 1]
    /\ page' = [page EXCEPT ![c] = << >>]
    /\ batch' = [batch EXCEPT ![c] = << >>]
    /\ all_data' = [all_data EXCEPT ![c] = << >>]
    /\ IF ConfigGate(cfg[c])
       THEN /\ pc' = [pc EXCEPT ![c] = "connect"]
            /\ outcome' = [outcome EXCEPT ![c] = "running"]
       ELSE /\ pc' = [pc EXCEPT ![c] = "idle"]
            /\ outcome' = [outcome EXCEPT ![c] = "aborted"]
    /\ UNCHANGED <<req, pool, upstreamVars, tableVars, uipath_configuration, uuids, cfg, access_token,
                   db_conn, events>>

\* "# 1. Connect DB": connect_db(), then create_table() and, in full mode,
\* get_record_count(); the last two catch their errors and write no row.
StepConnect(c) ==
    /\ pc[c] = "connect"
    /\ \E ch \in ConnectChoices :
          /\ ch # <<"ok", "ok">> => events < MaxEvents
          /\ connect_db(c, ch[1], ch[2])
          /\ events' = IF ch = <<"ok", "ok">> THEN events ELSE events + 1
          /\ trace' = [trace EXCEPT ![c] = Append(@, Ev("connect", 0, access_token[c], ch[1] = "ok"))]
    /\ pc' = [pc EXCEPT ![c] = "auth"]
    /\ UNCHANGED <<req, pool, upstreamVars, tableVars, uipath_configuration, uuids, access_token,
                   mode, loopVars, outcome, histVars, runs>>

\* What the identity endpoint may answer: a token only for credentials it
\* knows; a body without a token, an error status or a transport failure.
AuthResponses(c) ==
    (IF Truthy(cfg[c].client_id) /\ Truthy(cfg[c].client_secret)
     THEN {[kind |-> "ok", token |-> runs], [kind |-> "notoken", token |-> NoToken]}
     ELSE {})
    \cup {[kind |-> "http_error", token |-> NoToken], [kind |-> "transport", token |-> NoToken]}

\* A rejected credential is the upstream's normal answer, not an injected fault.
AuthCost(c, resp) ==
    IF resp.kind = "ok" THEN 0
    ELSE IF resp.kind = "http_error" /\ ~(Truthy(cfg[c].client_id) /\ Truthy(cfg[c].client_secret))
    THEN 0 ELSE 1

\* "# 2. Authenticate": self.authenticate().
StepAuth(c) ==
    /\ pc[c] = "auth"
    /\ \E resp \in AuthResponses(c) :
          LET r == authenticate(access_token[c], resp)
          IN /\ events + AuthCost(c, resp) <= MaxEvents
             /\ events' = events + AuthCost(c, resp)
             /\ access_token' = [access_token EXCEPT ![c] = r.token]
             /\ trace' = [trace EXCEPT ![c] =
                             Append(@, Ev("auth", 0, access_token[c], resp.kind \in {"ok", "notoken"}))]
             /\ IF r.raised # "none"
                THEN Raise(c)
                ELSE /\ pc' = [pc EXCEPT ![c] = "list"]
                     /\ UNCHANGED outcome
    /\ UNCHANGED <<req, pool, upstreamVars, tableVars, uipath_configuration, uuids, cfg, db_conn,
                   mode, loopVars, histVars, runs>>

\* folders = self.get_folders(); all_queue_data = [].
StepList(c) ==
    /\ pc[c] = "list"
    /\ \E ok \in BOOLEAN :
          LET r == get_folders([ok |-> ok, value |-> FolderListing])
          IN /\ ~ok => events < MaxEvents
             /\ events' = IF ok THEN events ELSE events + 1
             /\ trace' = [trace EXCEPT ![c] = Append(@, Ev("list", 0, access_token[c], ok))]
             /\ IF r.raised # "none"
                THEN /\ Raise(c)
                     /\ UNCHANGED folders
                ELSE /\ folders' = [folders EXCEPT ![c] = r.folders]
                     /\ pc' = [pc EXCEPT ![c] = IF r.folders = << >> THEN "finish" ELSE "fetch"]
                     /\ UNCHANGED outcome
    /\ UNCHANGED <<req, pool, upstreamVars, tableVars, uipath_configuration, uuids, cfg, access_token,
                   db_conn, mode, idx, page, batch, all_data, histVars, runs>>

\* The extractor of a run mode applied to the upstream's answer for folder f.
Extract(m, f, ok) ==
    IF m = "full"
    THEN get_queue_items([ok |-> ok, value |-> QueueItemsResponse(upItems, f, QueueItemParams)])
    ELSE IF m = "update"
    THEN get_filtered_queue_items([ok |-> ok,
                                   value |-> QueueItemsResponse(upItems, f, FilteredQueueItemParams)])
    ELSE get_jobs([ok |-> ok, value |-> JobsResponse(f, JobParams)])

\* The query parameters the extractor of a run mode sends.
ParamsOf(m) ==
    IF m = "full" THEN QueueItemParams
    ELSE IF m = "update" THEN FilteredQueueItemParams
    ELSE JobParams

\* The upstream keys of a fetched page.
KeysOf(m, items) ==
    [i \in 1..Len(items) |-> IF m = "jobs" THEN items[i].Key ELSE items[i].Id]

\* One iteration of the folder loop up to the insert: fetch, and when the
\* page is not empty, transform it.
StepFetch(c) ==
    /\ pc[c] = "fetch"
    /\ \E ok \in BOOLEAN : \E r \in {Extract(mode[c], folders[c][idx[c]], ok)} :
          LET f == folders[c][idx[c]]
              ev == [Ev("fetch", f, access_token[c], ok) EXCEPT
                        !.n = Len(r.items), !.ids = KeysOf(mode[c], r.items), !.logged = r.logged,
                        !.filter = ParamsOf(mode[c]).filter]
          IN /\ ~ok => events < MaxEvents
             /\ events' = IF ok THEN events ELSE events + 1
             /\ trace' = [trace EXCEPT ![c] = Append(@, ev)]
             /\ IF r.raised # "none"
                THEN /\ Raise(c)
                     /\ UNCHANGED <<idx, page, batch, uuids>>
                ELSE IF r.items = << >>
                THEN /\ idx' = [idx EXCEPT ![c] = @ + 1]
                     /\ pc' = [pc EXCEPT ![c] = AfterFolder(c, idx[c] + 1)]
                     /\ UNCHANGED <<page, batch, uuids, outcome>>
                ELSE /\ page' = [page EXCEPT ![c] = r.items]
                     /\ batch' = [batch EXCEPT ![c] =
                                     IF mode[c] = "jobs" THEN transform_jobs(r.items, uuids)
                                     ELSE transform_data(r.items, f)]
                     /\ uuids' = IF mode[c] = "jobs" THEN uuids + Len(r.items) ELSE uuids
                     /\ pc' = [pc EXCEPT ![c] = "persist"]
                     /\ UNCHANGED <<idx, outcome>>
    /\ UNCHANGED <<req, pool, upstreamVars, tableVars, uipath_configuration, cfg, access_token, db_conn,
                   mode, folders, all_data, histVars, runs>>

\* Mutant: the aggregate is rebound to the partition's records.
extend_Rebind(all, items) == items

\* all_queue_data.extend(transformed_items): the records are appended in order.
extend(all, items) == all \o items

\* What the database server may do to the statement: run it, reject it, or
\* drop the connection. On a connection that is not open nothing is chosen.
DbChoices(c) == IF db_conn[c] = "open" THEN {"ok", "error", "lost"} ELSE {"ok"}

\* The rest of the iteration: insert the batch, extend the aggregate; the next
\* iteration rebinds the page.
StepPersist(c) ==
    /\ pc[c] = "persist"
    /\ \E dbres \in DbChoices(c) :
          LET f == folders[c][idx[c]]
              r == IF mode[c] = "jobs"
                   THEN insert_jobs(db_conn[c], jobs, batch[c], dbres)
                   ELSE insert_data(db_conn[c], queue_items, batch[c], dbres, runs)
              ev == [Ev("persist", f, access_token[c], r.ok) EXCEPT
                        !.n = Len(batch[c]), !.ids = [i \in 1..Len(batch[c]) |-> batch[c][i].id],
                        !.exec = r.executed, !.rowcount = r.rowcount, !.logged = r.logged,
                        !.ret = r.ret]
          IN /\ dbres # "ok" => events < MaxEvents
             /\ events' = IF dbres = "ok" THEN events ELSE events + 1
             /\ trace' = [trace EXCEPT ![c] = Append(@, ev)]
             /\ IF mode[c] = "jobs"
                THEN jobs' = r.table /\ UNCHANGED queue_items
                ELSE queue_items' = r.table /\ UNCHANGED jobs
             /\ db_conn' = [db_conn EXCEPT ![c] = IF dbres = "lost" THEN "lost" ELSE @]
             /\ IF r.raised # "none"
                THEN /\ Raise(c)
                     /\ UNCHANGED <<idx, page, batch, all_data>>
                ELSE /\ all_data' = [all_data EXCEPT ![c] = extend(@, batch[c])]
                     /\ page' = [page EXCEPT ![c] = << >>]
                     /\ batch' = [batch EXCEPT ![c] = << >>]
                     /\ idx' = [idx EXCEPT ![c] = @ + 1]
                     /\ pc' = [pc EXCEPT ![c] = AfterFolder(c, idx[c] + 1)]
                     /\ UNCHANGED outcome
    /\ UNCHANGED <<req, pool, upstreamVars, uipath_configuration, uuids, cfg, access_token, mode,
                   folders, histVars, runs>>

\* After the loop: get_record_count() in full mode, close the connection when
\* it is connected, return {"value": all_data}.
StepFinish(c) ==
    /\ pc[c] = "finish"
    /\ db_conn' = [db_conn EXCEPT ![c] = IF @ = "open" THEN "closed" ELSE @]
    /\ pc' = [pc EXCEPT ![c] = "idle"]
    /\ outcome' = [outcome EXCEPT ![c] = "completed"]
    /\ UNCHANGED <<req, pool, upstreamVars, tableVars, uipath_configuration, uuids, cfg, access_token,
                   mode, loopVars, trace, histVars, runs, events>>

Next ==
    \/ UpstreamChange
    \/ update_config
    \/ \E c \in Solo : NewClient(c)
    \/ \E c \in Solo : CallConnectDb(c)
    \/ \E c \in Solo, m \in Modes : RunStart(c, m)
    \/ \E c \in Solo : StepConnect(c)
    \/ \E c \in Solo : StepAuth(c)
    \/ \E c \in Solo : StepList(c)
    \/ \E c \in Solo : StepFetch(c)
    \/ \E c \in Solo : StepPersist(c)
    \/ \E c \in Solo : StepFinish(c)

\* One client object at a time: runs follow one another.
Spec == Init /\ [][Next]_vars

\* The two queue-item tasks of the DAG (run_uipath_etl and update_queue_items,
\* with no dependency between them), each with its own client on which
\* connect_db() has loaded the stored configuration, each invoke their entry
\* point once, one after the other or overlapping: there is no mutual exclusion.
TaskMode(c) == IF c = "c1" THEN "full" ELSE "update"

InitOverlap ==
    /\ upItems = InitialItems
    /\ upEpoch = 0
    /\ queue_items = {}
    /\ jobs = {}
    /\ uipath_configuration = <<GoodConfig>>
    /\ uuids = 0
    /\ cfg = [c \in Clients |-> GoodConfig]
    /\ access_token = [c \in Clients |-> NoToken]
    /\ db_conn = [c \in Clients |-> "open"]
    /\ pc = [c \in Clients |-> "idle"]
    /\ mode = [c \in Clients |-> "full"]
    /\ folders = [c \in Clients |-> << >>]
    /\ idx = [c \in Clients |-> 1]
    /\ page = [c \in Clients |-> << >>]
    /\ batch = [c \in Clients |-> << >>]
    /\ all_data = [c \in Clients |-> << >>]
    /\ outcome = [c \in Clients |-> "none"]
    /\ trace = [c \in Clients |-> << >>]
    /\ atStart = [c \in Clients |-> [queue_items |-> {}, jobs |-> {}, epoch |-> 0, cfg |-> NoConfig,
                                   stored |-> << >>]]
    /\ prevRun = [c \in Clients |-> [mode |-> "full", outcome |-> "none", epoch |-> 0, clean |-> FALSE]]
    /\ req = [r \in Requests |-> NoRequest]
    /\ pool = 0
    /\ runs = 0
    /\ events = 0

NextOverlap ==
    \/ UpstreamChange
    \/ \E c \in Clients : outcome[c] = "none" /\ RunStart(c, TaskMode(c))
    \/ \E c \in Clients : StepConnect(c)
    \/ \E c \in Clients : StepAuth(c)
    \/ \E c \in Clients : StepList(c)
    \/ \E c \in Clients : StepFetch(c)
    \/ \E c \in Clients : StepPersist(c)
    \/ \E c \in Clients : StepFinish(c)

SpecOverlap == InitOverlap /\ [][NextOverlap]_vars

\* ------------------------------------------------------------------ transformation and insert on their own
MaxBatch == 2       \* raw records in one page given to transform_data

\* Timestamp strings of a raw record: absent, malformed, whole seconds, with
\* a fraction of a second, written with a UTC offset (+05:00).
CreationInputs == {NullTs, BadTs, T0, Ts(3600, 600000, 0)}
StartInputs == {NullTs, BadTs, T1, Ts(4200, 400000, 0)}
EndInputs == {NullTs, BadTs, T2, Ts(25800, 500000, 18000)}

TsTriples == [c : CreationInputs, s : StartInputs, e : EndInputs]

\* The i-th raw record of a page of folder 1.
RawInput(i, t) ==
    [RawItem(40 + i, "InProgress", "Normal", t.s, t.e) EXCEPT
        !.CreationTime = t.c, !.OrganizationUnitId = 1]

\* The page of n raw records with the timestamps ts[1] .. ts[n].
RawBatch(n, ts) == [i \in 1..n |-> RawInput(i, ts[i])]

\* The pages of raw jobs given to transform_jobs.
JobBatches == {UpstreamJobs(FolderListing[i]) : i \in 1..Len(FolderListing)}

\* A client on which connect_db() has loaded the stored configuration, and a
\* page of raw records for it to transform and insert.
InitTransform ==
    /\ upItems = InitialItems
    /\ upEpoch = 0
    /\ queue_items = {}
    /\ jobs = {}
    /\ uipath_configuration = <<GoodConfig>>
    /\ uuids = 0
    /\ cfg = [c \in Clients |-> IF c \in Solo THEN GoodConfig ELSE NoConfig]
    /\ access_token = [c \in Clients |-> NoToken]
    /\ db_conn = [c \in Clients |-> IF c \in Solo THEN "open" ELSE None]
    /\ pc = [c \in Clients |-> "idle"]
    /\ \/ /\ mode = [c \in Clients |-> "full"]
          /\ \E n \in 0..MaxBatch : \E ts \in [1..n -> TsTriples] :
                page = [c \in Clients |-> IF c \in Solo THEN RawBatch(n, ts) ELSE << >>]
       \/ /\ mode = [c \in Clients |-> "jobs"]
          /\ \E raw \in JobBatches :
                page = [c \in Clients |-> IF c \in Solo THEN raw ELSE << >>]
    /\ folders = [c \in Clients |-> << >>]
    /\ idx = [c \in Clients |-> 1]
    /\ batch = [c \in Clients |-> << >>]
    /\ all_data = [c \in Clients |-> << >>]
    /\ outcome = [c \in Clients |-> "none"]
    /\ trace = [c \in Clients |-> << >>]
    /\ atStart = [c \in Clients |-> [queue_items |-> {}, jobs |-> {}, epoch |-> 0, cfg |-> NoConfig,
                                   stored |-> << >>]]
    /\ prevRun = [c \in Clients |-> [mode |-> "full", outcome |-> "none", epoch |-> 0, clean |-> FALSE]]
    /\ req = [r \in Requests |-> NoRequest]
    /\ pool = 0
    /\ runs = 0
    /\ events = 0

\* A caller invokes transform_data(page, 1) or transform_jobs(page) on the
\* client: no I/O, the records are returned.
CallTransform(c) ==
    /\ outcome[c] = "none"
    /\ batch' = [batch EXCEPT ![c] = IF mode[c] = "jobs" THEN transform_jobs(page[c], uuids)
                                     ELSE transform_data(page[c], 1)]
    /\ uuids' = IF mode[c] = "jobs" THEN uuids + Len(page[c]) ELSE uuids
    /\ outcome' = [outcome EXCEPT ![c] = "returned"]
    /\ UNCHANGED <<req, pool, upstreamVars, tableVars, uipath_configuration, cfg, access_token,
                   db_conn, pc, mode, folders, idx, page, all_data, trace, histVars, runs, events>>

\* The caller hands the returned records, possibly none, to insert_data or
\* insert_jobs.
CallInsert(c) ==
    /\ outcome[c] = "returned"
    /\ \E dbres \in {"ok", "error"} :
          LET r == IF mode[c] = "jobs"
                   THEN insert_jobs(db_conn[c], jobs, batch[c], dbres)
                   ELSE insert_data(db_conn[c], queue_items, batch[c], dbres, runs)
              ev == [Ev("persist", 1, access_token[c], r.ok) EXCEPT
                        !.n = Len(batch[c]), !.ids = [i \in 1..Len(batch[c]) |-> batch[c][i].id],
                        !.exec = r.executed, !.rowcount = r.rowcount, !.logged = r.logged,
                        !.ret = r.ret]
          IN /\ trace' = [trace EXCEPT ![c] = <<ev>>]
             /\ IF mode[c] = "jobs"
                THEN jobs' = r.table /\ UNCHANGED queue_items
                ELSE queue_items' = r.table /\ UNCHANGED jobs
             /\ outcome' = [outcome EXCEPT ![c] = IF r.raised # "none" THEN "raised" ELSE "inserted"]
    /\ UNCHANGED <<req, pool, upstreamVars, uipath_configuration, uuids, cfg, access_token,
                   db_conn, pc, mode, loopVars, histVars, runs, events>>

NextTransform ==
    \/ \E c \in Solo : CallTransform(c)
    \/ \E c \in Solo : CallInsert(c)

SpecTransform == InitTransform /\ [][NextTransform]_vars

\* ------------------------------------------------------------------ the configuration service
MaxConfigRows == 3  \* rows of uipath_configuration in one behaviour

\* Mutant: the query orders by id ascending.
get_config_Oldest(rows, dbres) ==
    IF dbres # "ok" THEN [ok |-> FALSE, result |-> NoConfig]
    ELSE IF rows = << >> THEN [ok |-> FALSE, result |-> NoConfig]
    ELSE [ok |-> TRUE, result |-> rows[1]]

\* get_config on a pooled connection: the row with the highest id, None for
\* an empty table or a mysql.connector.Error.
get_config(rows, dbres) ==
    IF dbres # "ok" THEN [ok |-> FALSE, result |-> NoConfig]
    ELSE IF rows = << >> THEN [ok |-> FALSE, result |-> NoConfig]
    ELSE [ok |-> TRUE, result |-> rows[Len(rows)]]

InitConfig ==
    /\ upItems = InitialItems
    /\ upEpoch = 0
    /\ queue_items = {}
    /\ jobs = {}
    /\ uipath_configuration \in {<< >>, <<GoodConfig>>}
    /\ uuids = 0
    /\ cfg = [c \in Clients |-> NoConfig]
    /\ access_token = [c \in Clients |-> NoToken]
    /\ db_conn = [c \in Clients |-> None]
    /\ pc = [c \in Clients |-> "idle"]
    /\ mode = [c \in Clients |-> "full"]
    /\ folders = [c \in Clients |-> << >>]
    /\ idx = [c \in Clients |-> 1]
    /\ page = [c \in Clients |-> << >>]
    /\ batch = [c \in Clients |-> << >>]
    /\ all_data = [c \in Clients |-> << >>]
    /\ outcome = [c \in Clients |-> "none"]
    /\ trace = [c \in Clients |-> << >>]
    /\ atStart = [c \in Clients |-> [queue_items |-> {}, jobs |-> {}, epoch |-> 0, cfg |-> NoConfig,
                                   stored |-> << >>]]
    /\ prevRun = [c \in Clients |-> [mode |-> "full", outcome |-> "none", epoch |-> 0, clean |-> FALSE]]
    /\ req = [r \in Requests |-> NoRequest]
    /\ pool = 0
    /\ runs = 0
    /\ events = 0

\* DatabasePool: pool_size connections.
pool_size == 10

\* db.get_connection(): a pooled connection, or None when the pool raises
\* (it is exhausted, or the server cannot be reached).
get_connection == IF pool < pool_size THEN {"open", None} ELSE {None}

\* finally: if conn and conn.is_connected(): conn.close(). close() hands the
\* connection back to the pool; a connection that has dropped is not
\* connected, is not closed, and its place in the pool stays taken.
close_if_connected(n, dbres) == IF dbres = "lost" THEN n ELSE n - 1

\* The updates in flight: each may still insert a row.
InFlightUpdates == {r \in Requests : req[r].op = "update" /\ req[r].pc # "idle"}

\* GET /config or PUT /config arrives: conn = db.get_connection(), which is
\* None when the pool gives no connection; the call then returns None / False.
StartRequest(r) ==
    /\ req[r].pc = "idle"
    /\ \E op \in {"get", "update"}, data \in ConfigInputs, conn \in get_connection :
          /\ op = "update" =>
                Len(uipath_configuration) + Cardinality(InFlightUpdates) < MaxConfigRows
          /\ pool' = IF conn = None THEN pool ELSE pool + 1
          /\ req' = [req EXCEPT ![r] =
                        [op |-> op,
                         pc |-> IF conn = None THEN "idle" ELSE "connected",
                         data |-> IF op = "update" THEN data ELSE NoConfig,
                         ok |-> FALSE, result |-> NoConfig]]
    /\ UNCHANGED <<upstreamVars, tableVars, uipath_configuration, uuids, cfg, access_token,
                   db_conn, pc, mode, loopVars, outcome, trace, histVars, runs, events>>

\* get_config with a connection: the SELECT, which succeeds, is rejected or
\* finds the connection dropped; then the finally block.
RunGetConfig(r) ==
    /\ req[r].pc = "connected"
    /\ req[r].op = "get"
    /\ \E dbres \in {"ok", "error", "lost"} :
          LET g == get_config(uipath_configuration, dbres)
          IN /\ req' = [req EXCEPT ![r].pc = "idle", ![r].ok = g.ok, ![r].result = g.result]
             /\ pool' = close_if_connected(pool, dbres)
    /\ UNCHANGED <<upstreamVars, tableVars, uipath_configuration, uuids, cfg, access_token,
                   db_conn, pc, mode, loopVars, outcome, trace, histVars, runs, events>>

\* update_config with a connection: INSERT of a new row and commit (True),
\* or a mysql.connector.Error, a dropped connection included (False); then
\* the finally block.
RunUpdateConfig(r) ==
    /\ req[r].pc = "connected"
    /\ req[r].op = "update"
    /\ \E dbres \in {"ok", "error", "lost"} :
          /\ uipath_configuration' = IF dbres = "ok"
                                      THEN Append(uipath_configuration, req[r].data)
                                      ELSE uipath_configuration
          /\ req' = [req EXCEPT ![r].pc = "idle", ![r].ok = (dbres = "ok")]
          /\ pool' = close_if_connected(pool, dbres)
    /\ UNCHANGED <<upstreamVars, tableVars, uuids, cfg, access_token,
                   db_conn, pc, mode, loopVars, outcome, trace, histVars, runs, events>>

\* The engine's connect_db() on a client, recorded as the client's last call.
EngineConnect(c) ==
    /\ pc[c] = "idle"
    /\ \E ch \in ConnectChoices :
          /\ connect_db(c, ch[1], ch[2])
          /\ trace' = [trace EXCEPT ![c] =
                          << [Ev("load_config", 0, access_token[c], ch = <<"ok", "ok">>)
                                 EXCEPT !.n = Len(uipath_configuration)] >>]
    /\ UNCHANGED <<upstreamVars, tableVars, uipath_configuration, uuids, access_token, pc,
                   mode, loopVars, outcome, histVars, req, pool, runs, events>>

NextConfig ==
    \/ \E r \in Requests : StartRequest(r)
    \/ \E r \in Requests : RunGetConfig(r)
    \/ \E r \in Requests : RunUpdateConfig(r)
    \/ \E c \in Solo : EngineConnect(c)

SpecConfig == InitConfig /\ [][NextConfig]_vars

\* ------------------------------------------------------------------ a partition larger than one page
Overflow == 2       \* matching records of the partition beyond the first page

\* Folder 1 holds more matching queue items than $top; the upstream does not
\* change.
PagedIds == 101..(100 + QueueItemParams.top + Overflow)

\* A client on which connect_db() has loaded the stored configuration, in
\* front of that upstream.
InitPaged ==
    /\ upItems = [id \in PagedIds |-> RawItem(id, "Successful", "Normal", T1, T2)]
    /\ upEpoch = 0
    /\ queue_items = {}
    /\ jobs = {}
    /\ uipath_configuration = <<GoodConfig>>
    /\ uuids = 0
    /\ cfg = [c \in Clients |-> IF c \in Solo THEN GoodConfig ELSE NoConfig]
    /\ access_token = [c \in Clients |-> NoToken]
    /\ db_conn = [c \in Clients |-> IF c \in Solo THEN "open" ELSE None]
    /\ pc = [c \in Clients |-> "idle"]
    /\ mode = [c \in Clients |-> "full"]
    /\ folders = [c \in Clients |-> << >>]
    /\ idx = [c \in Clients |-> 1]
    /\ page = [c \in Clients |-> << >>]
    /\ batch = [c \in Clients |-> << >>]
    /\ all_data = [c \in Clients |-> << >>]
    /\ outcome = [c \in Clients |-> "none"]
    /\ trace = [c \in Clients |-> << >>]
    /\ atStart = [c \in Clients |-> [queue_items |-> {}, jobs |-> {}, epoch |-> 0, cfg |-> NoConfig,
                                   stored |-> << >>]]
    /\ prevRun = [c \in Clients |-> [mode |-> "full", outcome |-> "none", epoch |-> 0, clean |-> FALSE]]
    /\ req = [r \in Requests |-> NoRequest]
    /\ pool = 0
    /\ runs = 0
    /\ events = 0

\* The queue-item entry points invoked again and again on that client.
NextPaged ==
    \/ \E c \in Solo, m \in {"full", "update"} : RunStart(c, m)
    \/ \E c \in Solo : StepConnect(c)
    \/ \E c \in Solo : StepAuth(c)
    \/ \E c \in Solo : StepList(c)
    \/ \E c \in Solo : StepFetch(c)
    \/ \E c \in Solo : StepPersist(c)
    \/ \E c \in Solo : StepFinish(c)

SpecPaged == InitPaged /\ [][NextPaged]_vars

\* ------------------------------------------------------------------ helpers of the properties
Last(seq) == seq[Len(seq)]

RECURSIVE SumSeq(_)
SumSeq(seq) == IF seq = << >> THEN 0 ELSE Head(seq) + SumSeq(Tail(seq))

RECURSIVE Flatten(_)
Flatten(seqs) == IF seqs = << >> THEN << >> ELSE Head(seqs) \o Flatten(Tail(seqs))

\* The events of one kind in a trace, in order.
EventsOf(tr, op) == SelectSeq(tr, LAMBDA e : e.op = op)

\* The run of client c is over and returned {"value": all_data}.
Completed(c) == pc[c] = "idle" /\ outcome[c] = "completed"

\* The step just taken was the insert of client c's batch, and it was written.
PersistedStep(c) ==
    /\ pc[c] = "persist"
    /\ Len(trace'[c]) = Len(trace[c]) + 1
    /\ Last(trace'[c]).op = "persist"
    /\ Last(trace'[c]).ok

\* The last record of a batch that carries a given id (the one whose values
\* the statement leaves in the row).
LastWithId(data, id) ==
    data[CHOOSE i \in 1..Len(data) :
            /\ data[i].id = id
            /\ \A j \in (i + 1)..Len(data) : data[j].id # id]

BatchIds(data) == {data[i].id : i \in 1..Len(data)}

\* ------------------------------------------------------------------ C1
\* C1: after any sequence of queue-item sync runs the queue_items table holds
\* at most one row per upstream item id.
C1_OneRowPerId ==
    \A r1 \in queue_items, r2 \in queue_items : r1.id = r2.id => r1 = r2

\* A batch was written over rows that already existed (rowcount counts 2 for
\* an updated row), and the table holds several rows.
C1_Witness ==
    \E c \in Clients :
        /\ mode[c] # "jobs"
        /\ \E i \in 1..Len(trace[c]) :
              /\ trace[c][i].op = "persist"
              /\ trace[c][i].ok
              /\ trace[c][i].rowcount > trace[c][i].n
        /\ Cardinality(queue_items) >= 2

C3_UpsertInPlace ==
    [][\A c \in Clients :
          (PersistedStep(c) /\ mode[c] # "jobs") =>
             /\ Cardinality(queue_items') =
                   Cardinality(queue_items)
                   + Cardinality(BatchIds(batch[c]) \ {r.id : r \in queue_items})
             /\ \A id \in BatchIds(batch[c]) \cap {r.id : r \in queue_items} :
                   LET rec == LastWithId(batch[c], id)
                   IN \E r \in queue_items' :
                         /\ r.id = id
                         /\ \A q \in queue_items' : q.id = id => q = r
                         /\ r.status = rec.status
                         /\ r.start_processing = StoreDatetime(rec.start_processing)
                         /\ r.end_processing = StoreDatetime(rec.end_processing)
                         /\ r.run_duration = rec.run_duration
                         /\ r.waiting_duration = rec.waiting_duration]_vars

\* Item 42 was first written as InProgress and a later batch rewrote its row
\* in place as Successful with an end_processing timestamp.
C3_Witness ==
    \E c \in Clients :
        /\ mode[c] # "jobs"
        /\ trace[c] # << >>
        /\ Last(trace[c]).op = "persist"
        /\ Last(trace[c]).ok
        /\ Last(trace[c]).rowcount = 2
        /\ \E r \in atStart[c].queue_items : r.id = 42 /\ r.status = "InProgress"
        /\ \E r \in queue_items :
              r.id = 42 /\ r.status = "Successful" /\ r.end_processing.k = "ts"
        /\ Cardinality(queue_items) = Cardinality(atStart[c].queue_items)

\* ------------------------------------------------------------------ C4
\* C4: on an id conflict every column outside the update list keeps the value
\* the row held, whatever the incoming record holds, and rows with other ids
\* are untouched.
C4_UpsertFrame ==
    [][\A c \in Clients :
          (PersistedStep(c) /\ mode[c] # "jobs") =>
             \A r \in queue_items :
                \E q \in queue_items' :
                   /\ q.id = r.id
                   /\ q.queue_definition_id = r.queue_definition_id
                   /\ q.folder_id = r.folder_id
                   /\ q.key = r.key
                   /\ q.reference = r.reference
                   /\ q.priority = r.priority
                   /\ q.defer_date = r.defer_date
                   /\ q.seconds_prev_attempts = r.seconds_prev_attempts
                   /\ q.retry_number = r.retry_number
                   /\ q.creation_time = r.creation_time
                   /\ q.org_unit_id = r.org_unit_id
                   /\ q.inserted_at = r.inserted_at
                   /\ (r.id \notin BatchIds(batch[c]) => q = r)]_vars

\* A batch was written over the row of item 42 while the incoming record
\* carried another priority than the row: the row kept its own.
C4_Witness ==
    \E c \in Clients :
        /\ mode[c] # "jobs"
        /\ trace[c] # << >>
        /\ Last(trace[c]).op = "persist"
        /\ Last(trace[c]).ok
        /\ \E r \in queue_items, i \in 1..Len(all_data[c]) :
              /\ r.id = all_data[c][i].id
              /\ r.priority = "High"
              /\ all_data[c][i].priority = "Low"
              /\ r.inserted_at < runs

\* ------------------------------------------------------------------ C5
\* The number of records in the batches a run has written.
PersistedCount(tr) ==
    SumSeq([i \in 1..Len(tr) |->
               IF tr[i].op = "persist" /\ tr[i].ok THEN tr[i].n ELSE 0])

\* C5 as stated: every completed run_jobs_etl adds one new row per fetched job
\* and updates no existing row.
C5_AppendOnlyAsStated ==
    \A c \in Clients :
        (Completed(c) /\ mode[c] = "jobs") =>
            /\ atStart[c].jobs \subseteq jobs
            /\ Cardinality(jobs) = Cardinality(atStart[c].jobs) + Len(all_data[c])

\* C5 amended: every fetched job gets an identifier no other record or row
\* has; every batch insert_jobs writes adds one new row per job in it and
\* updates no existing row, so a run grows the jobs table by the number of
\* fetched jobs whose batch was written.
C5_AppendOnlyWritten ==
    \A c \in Clients :
        mode[c] = "jobs" =>
            /\ \A i \in 1..Len(all_data[c]), j \in 1..Len(all_data[c]) :
                  all_data[c][i].id = all_data[c][j].id => i = j
            /\ \A i \in 1..Len(all_data[c]) :
                  \A r \in atStart[c].jobs : r.id # all_data[c][i].id
            /\ atStart[c].jobs \subseteq jobs
            /\ Cardinality(jobs) = Cardinality(atStart[c].jobs) + PersistedCount(trace[c])

\* Job sync was run twice over the same three upstream jobs and wrote every
\* batch: the table holds six rows.
C5_Witness ==
    \E c \in Clients :
        /\ Completed(c)
        /\ mode[c] = "jobs"
        /\ prevRun[c].mode = "jobs"
        /\ prevRun[c].outcome = "completed"
        /\ Cardinality(atStart[c].jobs) = 3
        /\ PersistedCount(trace[c]) = 3
        /\ Cardinality(jobs) = 6

\* ------------------------------------------------------------------ C6
\* The upstream keys of the records of an aggregate result.
ResultKeys(m, data) ==
    [i \in 1..Len(data) |-> IF m = "jobs" THEN data[i].key_uuid ELSE data[i].id]

FailedFetch(tr) == \E i \in 1..Len(tr) : tr[i].op = "fetch" /\ ~tr[i].ok

\* C6: in every run mode a failed fetch contributes no records, raises
\* nothing, and the loop goes on: the completed run has fetched every listed
\* partition once, in order, and its result holds exactly the records of the
\* partitions whose fetch succeeded.
C6_FetchFailureIsolated ==
    \A c \in Clients :
        /\ \A i \in 1..Len(trace[c]) :
              (trace[c][i].op = "fetch" /\ ~trace[c][i].ok) =>
                 /\ trace[c][i].n = 0
                 /\ trace[c][i].logged
        /\ FailedFetch(trace[c]) => outcome[c] # "raised"
        /\ Completed(c) =>
              LET fetches == EventsOf(trace[c], "fetch")
              IN /\ [i \in 1..Len(fetches) |-> fetches[i].folder] = folders[c]
                 /\ ResultKeys(mode[c], all_data[c])
                      = Flatten([i \in 1..Len(fetches) |-> fetches[i].ids])

\* Three partitions, the fetch of the second failed: the run completed with
\* the records of partitions 1 and 3 only.
C6_Witness ==
    \E c \in Clients :
        /\ Completed(c)
        /\ mode[c] = "full"
        /\ LET fetches == EventsOf(trace[c], "fetch")
           IN /\ Len(fetches) = 3
              /\ fetches[1].ok /\ ~fetches[2].ok /\ fetches[3].ok
        /\ {all_data[c][i].folder_id : i \in 1..Len(all_data[c])} = {1, 3}

\* ------------------------------------------------------------------ C7
FailedPersist(tr) ==
    \E i \in 1..Len(tr) : tr[i].op = "persist" /\ tr[i].exec /\ ~tr[i].ok

RequiredMissing(k) ==
    \/ k.client_id \in {None, ""}
    \/ k.client_secret \in {None, ""}
    \/ k.org \in {None, ""}
    \/ k.tenant \in {None, ""}

\* C8: an entry point invoked with a required setting missing returns
\* (nothing raised, no result), has made no network or database call, and
\* has left both tables as they were.
C8_ConfigGate ==
    \A c \in Clients :
        (outcome[c] # "none" /\ RequiredMissing(atStart[c].cfg)) =>
            /\ pc[c] = "idle"
            /\ outcome[c] = "aborted"
            /\ trace[c] = << >>
            /\ all_data[c] = << >>
            /\ queue_items = atStart[c].queue_items
            /\ jobs = atStart[c].jobs

\* A run was invoked with only client_secret empty, on a client whose other
\* settings are loaded and with rows in the table, and returned at the gate.
C8_Witness ==
    \E c \in Clients :
        /\ outcome[c] = "aborted"
        /\ atStart[c].cfg.client_secret = ""
        /\ atStart[c].cfg.client_id = "id"
        /\ atStart[c].cfg.tenant = "tenant"
        /\ queue_items # {}

\* ------------------------------------------------------------------ C9
\* C9: a failed credential exchange ends the run with an exception: the
\* failed call is the only authentication call and the last call of the run,
\* so no listing, fetch or insert follows, and the tables are as the run
\* found them.
C9_AuthFailureFatal ==
    \A c \in Clients :
        \A i \in 1..Len(trace[c]) :
            (trace[c][i].op = "auth" /\ ~trace[c][i].ok) =>
                /\ i = Len(trace[c])
                /\ Len(EventsOf(trace[c], "auth")) = 1
                /\ pc[c] = "idle"
                /\ outcome[c] = "raised"
                /\ \A j \in 1..Len(trace[c]) : trace[c][j].op \notin {"list", "fetch", "persist"}
                /\ queue_items = atStart[c].queue_items
                /\ jobs = atStart[c].jobs

\* A run that passed the gate ended in an exception at authentication.
C9_Witness ==
    \E c \in Clients :
        /\ outcome[c] = "raised"
        /\ ConfigGate(atStart[c].cfg)
        /\ trace[c] # << >>
        /\ Last(trace[c]).op = "auth"
        /\ ~Last(trace[c]).ok

\* ------------------------------------------------------------------ C10
\* C10: a success answer without an access token makes authenticate fail, so
\* no listing or fetch call is ever sent while the access token is null.
C10_NoCallWithNullToken ==
    \A c \in Clients :
        \A i \in 1..Len(trace[c]) :
            trace[c][i].op \in {"list", "fetch"} => trace[c][i].tok # NoToken

\* ------------------------------------------------------------------ C11
\* C11: a failed folder listing ends the run with the exception: the failed
\* call is the last call of the run, no partition was fetched, transformed or
\* handed to an insert, and the tables are as the run found them.
C11_ListFailureAborts ==
    \A c \in Clients :
        \A i \in 1..Len(trace[c]) :
            (trace[c][i].op = "list" /\ ~trace[c][i].ok) =>
                /\ i = Len(trace[c])
                /\ pc[c] = "idle"
                /\ outcome[c] = "raised"
                /\ \A j \in 1..Len(trace[c]) : trace[c][j].op \notin {"fetch", "persist"}
                /\ folders[c] = << >>
                /\ batch[c] = << >>
                /\ all_data[c] = << >>
                /\ queue_items = atStart[c].queue_items
                /\ jobs = atStart[c].jobs

\* A run authenticated with a token, its listing failed and the run ended in
\* an exception while the table holds rows of an earlier run.
C11_Witness ==
    \E c \in Clients :
        /\ outcome[c] = "raised"
        /\ trace[c] # << >>
        /\ Last(trace[c]).op = "list"
        /\ ~Last(trace[c]).ok
        /\ Last(trace[c]).tok # NoToken
        /\ queue_items # {}

\* ------------------------------------------------------------------ C12
\* A call of the run that failed: a refused connection, a failed fetch, a
\* statement the database rejected.
Degraded(tr) ==
    \E i \in 1..Len(tr) : tr[i].op \in {"connect", "fetch", "persist"} /\ ~tr[i].ok /\ tr[i].exec

\* C12: an entry point ends in an exception only when its last call was a
\* failed authentication or a failed folder listing; a run whose gate,
\* connection, fetches, transformations or inserts failed, and whose
\* authentication and listing did not, returns: no result at the gate, the
\* aggregate otherwise.
C12_OnlyAuthAndListRaise ==
    \A c \in Clients :
        /\ outcome[c] = "raised" =>
              /\ trace[c] # << >>
              /\ Last(trace[c]).op \in {"auth", "list"}
              /\ ~Last(trace[c]).ok
        /\ (pc[c] = "idle" /\ outcome[c] # "none"
              /\ \A i \in 1..Len(trace[c]) : trace[c][i].op \in {"auth", "list"} => trace[c][i].ok)
           => outcome[c] \in {"aborted", "completed"}
        /\ outcome[c] = "aborted" => all_data[c] = << >>

\* A jobs run whose connection was refused and one of whose jobs carried a
\* malformed timestamp completed with all three jobs in its result.
C12_Witness ==
    \E c \in Clients :
        /\ Completed(c)
        /\ mode[c] = "jobs"
        /\ Degraded(trace[c])
        /\ trace[c][1].op = "connect" /\ ~trace[c][1].ok
        /\ Len(all_data[c]) = 3
        /\ \E i \in 1..Len(all_data[c]) :
              all_data[c][i].key_uuid = "j2" /\ all_data[c][i].start_time.k = "null"

\* ------------------------------------------------------------------ C13
\* The whole seconds a duration string denotes.
DurationSeconds(d) == d.days * 86400 + d.h * 3600 + d.m * 60 + d.s

\* The whole seconds from wall-clock time b to wall-clock time a, the
\* fraction of a second cut off.
WholeSecondsBetween(a, b) == (a.sec - b.sec) - (IF a.us < b.us THEN 1 ELSE 0)

\* transform_data has returned the records of client c's page.
Transformed(c) ==
    /\ outcome[c] \in {"returned", "inserted"}
    /\ mode[c] # "jobs"
    /\ Len(batch[c]) = Len(page[c])

\* C13: for every raw item whose CreationTime, StartProcessing and
\* EndProcessing are present and parseable, the record's waiting_duration is
\* its start_processing minus its creation_time and its run_duration is its
\* end_processing minus its start_processing, in whole seconds written as
\* H:MM:SS; creation 01:00:00, start 01:10:00, end 02:10:00 give 0:10:00 and
\* 1:00:00.
C13_DerivedDurations ==
    \A c \in Clients :
        Transformed(c) =>
            \A i \in 1..Len(page[c]) :
                LET raw == page[c][i]
                    rec == batch[c][i]
                IN ( /\ fromisoformat(raw.CreationTime).ok
                     /\ fromisoformat(raw.StartProcessing).ok
                     /\ fromisoformat(raw.EndProcessing).ok )
                   => /\ rec.waiting_duration.k = "str"
                      /\ rec.run_duration.k = "str"
                      /\ DurationSeconds(rec.waiting_duration)
                           = WholeSecondsBetween(rec.start_processing, rec.creation_time)
                      /\ DurationSeconds(rec.run_duration)
                           = WholeSecondsBetween(rec.end_processing, rec.start_processing)
                      /\ \A d \in {rec.waiting_duration, rec.run_duration} :
                            d.h \in 0..23 /\ d.m \in 0..59 /\ d.s \in 0..59
                      /\ (raw.CreationTime = T0 /\ raw.StartProcessing = T1 /\ raw.EndProcessing = T2)
                         => /\ rec.waiting_duration = [k |-> "str", days |-> 0, h |-> 0, m |-> 10, s |-> 0]
                            /\ rec.run_duration = [k |-> "str", days |-> 0, h |-> 1, m |-> 0, s |-> 0]

\* A page held the record of the example (0:10:00 and 1:00:00) and one whose
\* timestamps carry fractions: created 01:00:00.6, started 01:10:00.4, which
\* is 0:09:59 of waiting.
C13_Witness ==
    \E c \in Clients :
        /\ Transformed(c)
        /\ Len(batch[c]) = 2
        /\ page[c][1].CreationTime = T0 /\ page[c][1].StartProcessing = T1
        /\ page[c][1].EndProcessing = T2
        /\ batch[c][1].run_duration = [k |-> "str", days |-> 0, h |-> 1, m |-> 0, s |-> 0]
        /\ page[c][2].CreationTime.us = 600000 /\ page[c][2].StartProcessing.us = 400000
        /\ page[c][2].EndProcessing.k = "ts"
        /\ batch[c][2].waiting_duration = [k |-> "str", days |-> 0, h |-> 0, m |-> 9, s |-> 59]

\* ------------------------------------------------------------------ C14
\* A timestamp string is present and parseable.
Parseable(s) == s.k # "null" /\ fromisoformat(s).ok

\* C14: waiting_duration is non-null exactly when StartProcessing and
\* CreationTime are both present and parseable, run_duration exactly when
\* StartProcessing and EndProcessing are; a record with a start and no end
\* has run_duration null and its waiting_duration computed.
C14_NullSafeDurations ==
    \A c \in Clients :
        Transformed(c) =>
            \A i \in 1..Len(page[c]) :
                LET raw == page[c][i]
                    rec == batch[c][i]
                IN /\ rec.waiting_duration.k \in {"null", "str"}
                   /\ rec.run_duration.k \in {"null", "str"}
                   /\ rec.waiting_duration.k = "str"
                        <=> (Parseable(raw.StartProcessing) /\ Parseable(raw.CreationTime))
                   /\ rec.run_duration.k = "str"
                        <=> (Parseable(raw.StartProcessing) /\ Parseable(raw.EndProcessing))
                   /\ rec.waiting_duration.k = "null" => rec.waiting_duration = NoDuration
                   /\ rec.run_duration.k = "null" => rec.run_duration = NoDuration

\* A record started at 01:10:00 with no end: run_duration is null and
\* waiting_duration is 0:10:00; next to it a record with an end and a
\* malformed creation time: run_duration computed, waiting_duration null.
C14_Witness ==
    \E c \in Clients :
        /\ Transformed(c)
        /\ Len(batch[c]) = 2
        /\ page[c][1].StartProcessing = T1 /\ page[c][1].EndProcessing = NullTs
        /\ page[c][1].CreationTime = T0
        /\ batch[c][1].run_duration = NoDuration
        /\ batch[c][1].waiting_duration = [k |-> "str", days |-> 0, h |-> 0, m |-> 10, s |-> 0]
        /\ page[c][2].CreationTime = BadTs /\ page[c][2].EndProcessing = T2
        /\ batch[c][2].run_duration.k = "str"
        /\ batch[c][2].waiting_duration = NoDuration

\* ------------------------------------------------------------------ C15
\* The normalized timestamp of a raw timestamp string that is absent or
\* malformed is null.
NullOut(raw, out) == ~Parseable(raw) => out.k = "null"

\* C15: whatever timestamp strings the raw items carry, transform_data
\* returns one record per raw item, in the order of the page; a malformed
\* timestamp and every duration derived from it are null in the record, and
\* each record is what its raw item alone determines.
C15_TransformTotal ==
    \A c \in Clients :
        (outcome[c] \in {"returned", "inserted"} /\ mode[c] # "jobs") =>
            /\ Len(batch[c]) = Len(page[c])
            /\ \A i \in 1..Len(page[c]) :
                  LET raw == page[c][i]
                      rec == batch[c][i]
                  IN /\ rec.id = raw.Id
                     /\ rec.status = raw.Status
                     /\ NullOut(raw.CreationTime, rec.creation_time)
                     /\ NullOut(raw.StartProcessing, rec.start_processing)
                     /\ NullOut(raw.EndProcessing, rec.end_processing)
                     /\ NullOut(raw.DeferDate, rec.defer_date)
                     /\ raw.CreationTime = BadTs => rec.waiting_duration = NoDuration
                     /\ raw.StartProcessing = BadTs =>
                           rec.waiting_duration = NoDuration /\ rec.run_duration = NoDuration
                     /\ raw.EndProcessing = BadTs => rec.run_duration = NoDuration
                     /\ Parseable(raw.CreationTime) => rec.creation_time.k = "ts"
                     /\ Parseable(raw.StartProcessing) => rec.start_processing.k = "ts"
                     /\ Parseable(raw.EndProcessing) => rec.end_processing.k = "ts"
                     /\ \A j \in 1..Len(page[c]) :
                           [page[c][j] EXCEPT !.Id = raw.Id, !.Key = raw.Key] = raw
                              => [batch[c][j] EXCEPT !.id = rec.id, !.key = rec.key] = rec

\* A page of two records, the first with a malformed StartProcessing, the
\* second well-formed: two records came back in order, the first with its
\* start and both durations null, the second with both durations computed.
C15_Witness ==
    \E c \in Clients :
        /\ outcome[c] = "returned"
        /\ mode[c] # "jobs"
        /\ Len(page[c]) = 2 /\ Len(batch[c]) = 2
        /\ page[c][1].StartProcessing = BadTs /\ page[c][1].EndProcessing = T2
        /\ batch[c][1].id = 41 /\ batch[c][2].id = 42
        /\ batch[c][1].start_processing.k = "null"
        /\ batch[c][1].end_processing.k = "ts"
        /\ batch[c][1].run_duration = NoDuration /\ batch[c][1].waiting_duration = NoDuration
        /\ batch[c][2].run_duration.k = "str" /\ batch[c][2].waiting_duration.k = "str"

\* ------------------------------------------------------------------ C16
\* Request r's call returns in this step.
Returns(r, op) == req[r].pc = "connected" /\ req[r].op = op /\ req'[r].pc = "idle"

\* C16: every step leaves the rows uipath_configuration already holds as they
\* are, in place; an update_config that returns True has added its payload as
\* the newest row and one that returns False has added nothing; a get_config
\* that finds a row returns the newest one, and a connect_db whose
\* load_config read a row leaves the client with the values of the newest one.
C16_ConfigAppendOnlyLatest ==
    [][/\ Len(uipath_configuration') >= Len(uipath_configuration)
       /\ SubSeq(uipath_configuration', 1, Len(uipath_configuration)) = uipath_configuration
       /\ \A r \in Requests :
             /\ (Returns(r, "update") /\ req'[r].ok) =>
                   uipath_configuration' = Append(uipath_configuration, req[r].data)
             /\ (Returns(r, "update") /\ ~req'[r].ok) =>
                   uipath_configuration' = uipath_configuration
             /\ (Returns(r, "get") /\ req'[r].ok) =>
                   /\ uipath_configuration # << >>
                   /\ req'[r].result = Last(uipath_configuration)
       /\ \A c \in Clients :
             ( /\ trace'[c] # << >>
               /\ Last(trace'[c]).op = "load_config"
               /\ Last(trace'[c]).ok
               /\ uipath_configuration # << >>
               /\ \/ trace'[c] # trace[c]
                  \/ cfg'[c] # cfg[c] )
             => cfg'[c] = Last(uipath_configuration)]_vars

\* On top of the stored row a second, different row was inserted; while
\* another PUT request is still being served, a GET request served at the
\* same time and the engine's load_config both hold the newest row, and the
\* first row is as it was.
C16_Witness ==
    /\ Len(uipath_configuration) = 2
    /\ uipath_configuration[1] = GoodConfig
    /\ uipath_configuration[2] # uipath_configuration[1]
    /\ req["r1"].op = "update" /\ req["r1"].pc = "connected"
    /\ req["r2"].op = "get" /\ req["r2"].pc = "idle" /\ req["r2"].ok
    /\ req["r2"].result = uipath_configuration[2]
    /\ \E c \in Clients :
          /\ trace[c] # << >> /\ Last(trace[c]).op = "load_config" /\ Last(trace[c]).ok
          /\ cfg[c] = uipath_configuration[2]

\* ------------------------------------------------------------------ C17
\* C17: a run started on a freshly constructed client, while the newest
\* stored configuration row has all four required settings, reads that row
\* before the gate, passes the gate and goes on to authentication.
C17_FreshClientPassesGate ==
    \A c \in Clients :
        ( /\ outcome[c] # "none"
          /\ atStart[c].cfg = NoConfig
          /\ atStart[c].stored # << >>
          /\ ConfigGate(Last(atStart[c].stored)) )
        => outcome[c] # "aborted"

\* ------------------------------------------------------------------ C18
\* The last call of client c was an insert that was handed no records.
EmptyInsert(c) ==
    /\ trace[c] # << >>
    /\ Last(trace[c]).op = "persist"
    /\ Last(trace[c]).n = 0

\* C18 as stated: insert_data and insert_jobs called with an empty list issue
\* no statement, leave the tables unchanged, raise nothing and return 0.
C18_EmptyBatchReturnsZero ==
    \A c \in Clients :
        EmptyInsert(c) =>
            /\ ~Last(trace[c]).exec
            /\ ~Last(trace[c]).logged
            /\ outcome[c] # "raised"
            /\ queue_items = atStart[c].queue_items
            /\ jobs = atStart[c].jobs
            /\ Last(trace[c]).ret = Count(0)

\* C18 amended: the same no-op, returning None as every path of the two
\* functions does.
C18_EmptyBatchNoOp ==
    \A c \in Clients :
        EmptyInsert(c) =>
            /\ ~Last(trace[c]).exec
            /\ ~Last(trace[c]).logged
            /\ outcome[c] # "raised"
            /\ queue_items = atStart[c].queue_items
            /\ jobs = atStart[c].jobs
            /\ Last(trace[c]).ret = NoReturn

\* insert_data was called with an empty list on a client whose connection is
\* open, and returned.
C18_Witness ==
    \E c \in Clients :
        /\ EmptyInsert(c)
        /\ mode[c] = "full"
        /\ db_conn[c] = "open"
        /\ outcome[c] = "inserted"
        /\ batch[c] = << >>

\* ------------------------------------------------------------------ C19
\* The records transform_data / transform_jobs makes of the page client c
\* holds (the identifiers of job records are the ones generated for the page).
TransformedPage(c) ==
    IF mode[c] = "jobs" THEN transform_jobs(page[c], uuids - Len(page[c]))
    ELSE transform_data(page[c], folders[c][idx[c]])

\* C19: the aggregate of a run starts empty, grows only when a partition's
\* fetch returned records, and then by exactly the transformed records of
\* that page, appended in order; so the result of a completed run is the
\* concatenation, in partition order, of the transformed records of every
\* page that held records, each record once.
C19_AggregateResult ==
    [][\A c \in Clients :
          /\ (pc[c] = "persist" /\ pc'[c] # "persist") =>
                /\ page[c] # << >>
                /\ Len(TransformedPage(c)) = Len(page[c])
                /\ all_data'[c] = all_data[c] \o TransformedPage(c)
          /\ (pc[c] # "persist" \/ pc'[c] = "persist") =>
                /\ all_data'[c] \in {all_data[c], << >>}
                /\ all_data'[c] # all_data[c] => pc[c] = "idle"
          /\ (pc'[c] = "idle" /\ outcome'[c] = "completed") =>
                LET fetches == EventsOf(trace'[c], "fetch")
                IN /\ [i \in 1..Len(fetches) |-> fetches[i].folder] = folders'[c]
                   /\ ResultKeys(mode'[c], all_data'[c])
                        = Flatten([i \in 1..Len(fetches) |-> fetches[i].ids])
                   /\ Len(all_data'[c]) = SumSeq([i \in 1..Len(fetches) |-> fetches[i].n])]_vars

\* A full run over three partitions, each with records, completed: its
\* result holds the four records in partition order, newest id first within
\* a partition, although the insert of one of the batches had failed.
C19_Witness ==
    \E c \in Clients :
        /\ Completed(c)
        /\ mode[c] = "full"
        /\ [i \in 1..Len(all_data[c]) |-> all_data[c][i].id] = <<44, 41, 42, 43>>
        /\ [i \in 1..Len(all_data[c]) |-> all_data[c][i].folder_id] = <<1, 1, 2, 3>>
        /\ FailedPersist(trace[c])

\* ------------------------------------------------------------------ C20
\* C20 as stated: for the same partition the extractor of run_update_job
\* sends a filter that differs from the one run_etl's extractor sends.
C20_FilterDiffers ==
    \A c \in Clients :
        mode[c] = "update" =>
            \A i \in 1..Len(trace[c]) :
                trace[c][i].op = "fetch" => trace[c][i].filter # ParamsOf("full").filter

\* C20 amended: the update mode shares the transform and persist path with
\* the full mode and its extractor sends the same query: every fetch of an
\* update run carries the filter, order and window of the full run's fetch,
\* and whenever a run is about to fetch a partition both extractors would
\* return the same page for it.
C20_SameQueryBothModes ==
    \A c \in Clients :
        mode[c] \in {"full", "update"} =>
            /\ \A i \in 1..Len(trace[c]) :
                  trace[c][i].op = "fetch" =>
                     /\ trace[c][i].filter = ParamsOf("full").filter
                     /\ trace[c][i].filter = ParamsOf("update").filter
            /\ ParamsOf("update") = ParamsOf("full")
            /\ pc[c] = "fetch" =>
                  \A ok \in BOOLEAN :
                     Extract("update", folders[c][idx[c]], ok) = Extract("full", folders[c][idx[c]], ok)

\* An update run completed right after a clean full run over unchanged
\* upstream data: it fetched the same four records with the same filter and
\* left the table as the full run had written it.
C20_Witness ==
    \E c \in Clients :
        /\ Completed(c)
        /\ mode[c] = "update"
        /\ prevRun[c].mode = "full" /\ prevRun[c].outcome = "completed" /\ prevRun[c].clean
        /\ prevRun[c].epoch = upEpoch
        /\ CleanRun(trace[c])
        /\ ResultKeys(mode[c], all_data[c]) = <<44, 41, 42, 43>>
        /\ \A i \in 1..Len(trace[c]) :
              trace[c][i].op = "fetch" => trace[c][i].filter = QueueItemParams.filter
        /\ Cardinality(queue_items) = 4
        /\ queue_items = atStart[c].queue_items

\* ------------------------------------------------------------------ C21
\* The calls of a run, in order, have the shape
\*   connect, auth, list, (fetch [persist])*
\* cut where the run stands or where it raised: the fetches go through the
\* listing in its order, a persist directly follows the successful non-empty
\* fetch of its own partition, and list and fetch carry one token.
CallShape(c) ==
    LET tr == trace[c]
        fetches == EventsOf(tr, "fetch")
    IN /\ \A i \in 1..Len(tr) :
             /\ i = 1 => tr[i].op = "connect"
             /\ i = 2 => tr[i].op = "auth"
             /\ i = 3 => tr[i].op = "list" /\ tr[2].ok
             /\ i > 3 => /\ tr[i].op \in {"fetch", "persist"}
                         /\ tr[3].ok
             /\ tr[i].op = "persist" =>
                   /\ tr[i - 1].op = "fetch"
                   /\ tr[i - 1].folder = tr[i].folder
                   /\ tr[i - 1].ok /\ tr[i - 1].n > 0
             /\ (tr[i].op = "fetch" /\ i < Len(tr) /\ tr[i].ok /\ tr[i].n > 0) =>
                   tr[i + 1].op = "persist"
             /\ tr[i].op \in {"list", "fetch"} => tr[i].tok = tr[3].tok
       /\ Len(fetches) <= Len(folders[c])
       /\ \A k \in 1..Len(fetches) : fetches[k].folder = folders[c][k]

\* C21: a run that passed the gate makes one authentication call, then one
\* listing call, then per partition of the listing, in its order, one fetch
\* followed by at most one persist, one partition after the other; a run that
\* completed went through every listed partition; the token that list and
\* fetch send is the one the run's authentication stored, and nothing
\* replaces it while the run goes on; a run stopped at the gate calls nothing.
C21_CallOrdering ==
    [][\A c \in Clients :
          /\ CallShape(c)'
          /\ outcome'[c] = "aborted" => trace'[c] = << >>
          /\ (pc'[c] = "idle" /\ outcome'[c] = "completed") =>
                /\ Len(EventsOf(trace'[c], "auth")) = 1
                /\ Len(EventsOf(trace'[c], "list")) = 1
                /\ Len(EventsOf(trace'[c], "fetch")) = Len(folders'[c])
                /\ Len(EventsOf(trace'[c], "persist")) <= Len(folders'[c])
          /\ (Len(trace'[c]) = Len(trace[c]) + 1 /\ Last(trace'[c]).op \in {"list", "fetch"}) =>
                Last(trace'[c]).tok = access_token[c]
          /\ (pc[c] \notin {"idle", "auth"}) => access_token'[c] = access_token[c]]_vars

\* A run completed over three partitions: the fetch of the second one failed
\* and was followed by no persist, the other two were persisted, all with
\* the token the run had acquired.
C21_Witness ==
    \E c \in Clients :
        /\ Completed(c)
        /\ [i \in 1..Len(trace[c]) |-> trace[c][i].op]
             = <<"connect", "auth", "list", "fetch", "persist", "fetch", "fetch", "persist">>
        /\ [i \in 4..8 |-> trace[c][i].folder] = [i \in 4..8 |-> <<1, 1, 2, 3, 3>>[i - 3]]
        /\ ~trace[c][6].ok
        /\ trace[c][3].tok # NoToken
        /\ trace[c][7].tok = access_token[c]

\* ------------------------------------------------------------------ C22
\* Client c issues its authentication call in this step.
Authenticates(c) ==
    /\ pc[c] = "auth"
    /\ Len(trace'[c]) = Len(trace[c]) + 1
    /\ Last(trace'[c]).op = "auth"

\* C22: whenever a run issues its authentication call, the client_id,
\* client_secret, org and tenant it sends are non-empty and are the values
\* the gate of this run checked.
C22_AuthUsesGatedConfig ==
    [][\A c \in Clients :
          Authenticates(c) =>
             /\ ConfigGate(cfg[c])
             /\ cfg[c] = atStart[c].cfg]_vars

\* ------------------------------------------------------------------ C23
\* The duration string d of a stored row is the difference of the row's own
\* DATETIME columns a - b, and null when one of the two is null.
StoredDifference(d, a, b) ==
    IF a.k = "null" \/ b.k = "null"
    THEN d = NoDuration
    ELSE d.k = "str" /\ DurationSeconds(d) = a.sec - b.sec

\* C23: in every state of the queue_items table each row's run_duration is
\* that row's end_processing minus its start_processing and each row's
\* waiting_duration is that row's start_processing minus its creation_time,
\* null when one of the two timestamps is null.
C23_StoredRowDurations ==
    \A row \in queue_items :
        /\ StoredDifference(row.run_duration, row.end_processing, row.start_processing)
        /\ StoredDifference(row.waiting_duration, row.start_processing, row.creation_time)

\* ------------------------------------------------------------------ C24
\* The upstream items of folder f that the queue-item filter selects.
Matching(f) ==
    {id \in DOMAIN upItems :
        /\ upItems[id].OrganizationUnitId = f
        /\ MatchesFilter(QueueItemParams.filter, upItems[id])}

\* The ids of folder f beyond the first page of the query.
BeyondFirstPage(f) ==
    LET ordered == IdDesc(Matching(f))
    IN {ordered[i] : i \in (QueueItemParams.top + 1)..Len(ordered)}

\* C24: the queue-item extractors ask for $top=100 and $skip=0, once per
\* partition and run; a run retrieves and persists at most 100 records of a
\* partition, and with an unchanged upstream the matching records beyond the
\* first page are in the table after no number of runs.
C24_SinglePage ==
    /\ \A m \in {"full", "update"} : ParamsOf(m).top = 100 /\ ParamsOf(m).skip = 0
    /\ \A c \in Clients :
          /\ \A i \in 1..Len(trace[c]) :
                /\ trace[c][i].op \in {"fetch", "persist"} => trace[c][i].n <= 100
                /\ trace[c][i].op = "fetch" =>
                      \A j \in 1..Len(trace[c]) :
                         (j # i /\ trace[c][j].op = "fetch") =>
                            trace[c][j].folder # trace[c][i].folder
          /\ Len(page[c]) <= 100
          /\ Len(batch[c]) <= 100
          /\ Len(all_data[c]) <= 100 * Len(folders[c])
    /\ \A k \in 1..Len(FolderListing) :
          LET beyond == BeyondFirstPage(FolderListing[k])
          IN beyond # {} =>
                \A row \in queue_items : row.folder_id = FolderListing[k] => row.id \notin beyond

\* Folder 1 holds more than 100 matching records; a second clean run has
\* completed after a first clean one, each fetched and wrote the 100 newest
\* records, and the oldest ones are still not in the table.
C24_Witness ==
    \E c \in Clients :
        /\ Completed(c)
        /\ CleanRun(trace[c])
        /\ prevRun[c].outcome = "completed" /\ prevRun[c].clean
        /\ Cardinality(Matching(1)) > 100
        /\ BeyondFirstPage(1) # {}
        /\ \E i \in 1..Len(trace[c]) :
              /\ trace[c][i].op = "persist" /\ trace[c][i].folder = 1
              /\ trace[c][i].n = 100 /\ trace[c][i].ok
        /\ Cardinality(queue_items) = 100
        /\ \A id \in BeyondFirstPage(1) : \A row \in queue_items : row.id # id

\* ------------------------------------------------------------------ C25
\* The service operations that hold a connection of the pool.
InProgress == {r \in Requests : req[r].pc = "connected"}

\* C25: every connection a service operation checked out is handed back on
\* every path of the operation, a dropped connection included: never more
\* than pool_size connections are checked out, each checked-out connection
\* belongs to an operation in progress, and none is checked out when no
\* operation is in progress.
C25_PoolDiscipline ==
    /\ pool \in 0..pool_size
    /\ pool = Cardinality(InProgress)
    /\ InProgress = {} => pool = 0

\* ------------------------------------------------------------------ C26
\* How far along its lifecycle an item is: a later fetch of an item never
\* sees it further back than an earlier one.
Rank(status) == IF status = "New" THEN 0 ELSE IF status = "InProgress" THEN 1 ELSE 2

\* Every client has completed a queue-item run in which no fetch and no
\* insert failed.
AllFinishedClean ==
    \A c \in Clients : Completed(c) /\ mode[c] # "jobs" /\ CleanRun(trace[c])

\* The records with a given id in the result of client c's run.
Fetched(c, id) == {all_data[c][i] : i \in {j \in 1..Len(all_data[c]) : all_data[c][j].id = id}}

\* C26 as stated: after both overlapping runs have finished, the row of an
\* id holds the later-fetched state of the item: it is behind none of the
\* records the two runs fetched for it.
C26_NoStaleOverwrite ==
    AllFinishedClean =>
        \A row \in queue_items : \A c \in Clients : \A rec \in Fetched(c, row.id) :
            /\ Rank(row.status) >= Rank(rec.status)
            /\ rec.end_processing.k = "ts" => row.end_processing.k = "ts"

\* C26 amended: overlapping runs are not ordered by their fetches, the last
\* writer wins. An insert that is executed leaves in the row of every id of
\* its batch the status, timestamps and durations its own run fetched,
\* whatever another run has written there since that fetch; and after both
\* runs have finished each row holds what one of the two runs fetched for
\* its id.
C26_LastWriterWins ==
    [][/\ \A c \in Clients :
             (PersistedStep(c) /\ mode[c] # "jobs") =>
                \A id \in BatchIds(batch[c]) :
                   LET rec == LastWithId(batch[c], id)
                   IN \E r \in queue_items' :
                         /\ r.id = id
                         /\ r.status = rec.status
                         /\ r.start_processing = StoreDatetime(rec.start_processing)
                         /\ r.end_processing = StoreDatetime(rec.end_processing)
                         /\ r.run_duration = rec.run_duration
                         /\ r.waiting_duration = rec.waiting_duration
       /\ AllFinishedClean' =>
             \A row \in queue_items' : \E c \in Clients : \E rec \in Fetched(c, row.id)' :
                /\ row.status = rec.status
                /\ row.start_processing = StoreDatetime(rec.start_processing)
                /\ row.end_processing = StoreDatetime(rec.end_processing)]_vars

\* Both runs finished without a failure; one fetched an item before the
\* upstream moved it on and wrote it after the other run, which had fetched
\* the item in its new state: the row is back on the older state.
C26_Witness ==
    /\ AllFinishedClean
    /\ \E row \in queue_items : \E c, d \in Clients :
          \E old \in Fetched(c, row.id), new \in Fetched(d, row.id) :
             /\ c # d
             /\ Rank(old.status) < Rank(new.status)
             /\ upItems[row.id].Status = new.status
             /\ row.status = old.status
             /\ row.end_processing = StoreDatetime(old.end_processing)

\* ------------------------------------------------------------------ C27
\* The entry point of client c returns or raises in this step, and its run
\* had opened a database connection.
RunEndsAfterConnect(c) ==
    /\ pc[c] # "idle"
    /\ pc'[c] = "idle"
    /\ \E i \in 1..Len(trace'[c]) : trace'[c][i].op = "connect" /\ trace'[c][i].ok

\* C27: when a run entry point returns or raises, the database connection
\* the run opened is no longer open.
C27_ConnectionClosedAtEnd ==
    [][\A c \in Clients : RunEndsAfterConnect(c) => db_conn'[c] # "open"]_vars


\* ------------------------------------------------------------------ C28
\* The ids of the rows of the table a run of client c writes to.
TableIds(c) ==
    IF mode[c] = "jobs" THEN {r.id : r \in jobs} ELSE {r.id : r \in queue_items}

\* The step just taken was the insert call of client c's batch.
InsertStep(c) ==
    /\ pc[c] = "persist"
    /\ Len(trace'[c]) = Len(trace[c]) + 1
    /\ Last(trace'[c]).op = "persist"

\* C28 as stated: every record of the result a completed run returns has
\* its row in the destination table.
C28_ResultOnlyPersisted ==
    \A c \in Clients :
        Completed(c) => BatchIds(all_data[c]) \subseteq TableIds(c)

\* C28: the result lists the transformed records of every batch handed to the
\* insert, whether the insert wrote them or not: the insert step appends the
\* whole batch to the result and the loop goes on; a written batch has its
\* rows in the table, a batch that was not written leaves the table as it was.
C28_ResultListsEveryBatch ==
    [][\A c \in Clients :
          InsertStep(c) =>
              /\ pc'[c] \in {"fetch", "finish"}
              /\ all_data'[c] = all_data[c] \o batch[c]
              /\ Last(trace'[c]).ok => BatchIds(batch[c]) \subseteq TableIds(c)'
              /\ ~Last(trace'[c]).ok => /\ queue_items' = queue_items
                                        /\ jobs' = jobs]_vars

\* A completed run whose insert failed: the result lists a record that has no
\* row in the table.
C28_Witness ==
    \E c \in Clients :
        /\ Completed(c)
        /\ FailedPersist(trace[c])
        /\ \E i \in 1..Len(all_data[c]) : all_data[c][i].id \notin TableIds(c)


\* ------------------------------------------------------------------ C29
\* The instant a parsed timestamp string denotes: its wall-clock fields less
\* its UTC offset.
Instant(s) ==
    LET dt == fromisoformat(s)
    IN [sec |-> dt.sec - dt.off, us |-> dt.us]

\* C29: for every raw item whose three timestamps are present and parseable,
\* whatever their UTC offsets, waiting_duration and run_duration are the whole
\* seconds between the instants the timestamps denote.
C29_DurationsBetweenInstants ==
    \A c \in Clients :
        Transformed(c) =>
            \A i \in 1..Len(page[c]) :
                LET raw == page[c][i]
                    rec == batch[c][i]
                IN ( /\ fromisoformat(raw.CreationTime).ok
                     /\ fromisoformat(raw.StartProcessing).ok
                     /\ fromisoformat(raw.EndProcessing).ok )
                   => /\ rec.waiting_duration.k = "str"
                      /\ rec.run_duration.k = "str"
                      /\ DurationSeconds(rec.waiting_duration)
                           = WholeSecondsBetween(Instant(raw.StartProcessing),
                                                 Instant(raw.CreationTime))
                      /\ DurationSeconds(rec.run_duration)
                           = WholeSecondsBetween(Instant(raw.EndProcessing),
                                                 Instant(raw.StartProcessing))


\* ------------------------------------------------------------------ C30
\* One step of the run of client c: each is a call that returns or fails.
RunStep(c) ==
    \/ StepConnect(c)
    \/ StepAuth(c)
    \/ StepList(c)
    \/ StepFetch(c)
    \/ StepPersist(c)
    \/ StepFinish(c)

\* The invocations of the three entry points on one client, one after the
\* other, against an upstream and a stored configuration that stay as they are.
NextRuns ==
    \/ \E c \in Solo : CallConnectDb(c)
    \/ \E c \in Solo, m \in Modes : RunStart(c, m)
    \/ \E c \in Solo : StepConnect(c)
    \/ \E c \in Solo : StepAuth(c)
    \/ \E c \in Solo : StepList(c)
    \/ \E c \in Solo : StepFetch(c)
    \/ \E c \in Solo : StepPersist(c)
    \/ \E c \in Solo : StepFinish(c)

\* Every call of a run in progress eventually returns or fails: the entry
\* points are straight-line code around one for loop, and no step waits for
\* anything but its own call.
SpecFair == Init /\ [][NextRuns]_vars /\ \A c \in Solo : WF_vars(RunStep(c))

\* The run of client c has connected, authenticated and listed at most once,
\* and has fetched and inserted each listed folder at most once, in one pass.
OnePass(c) ==
    /\ \A op \in {"connect", "auth", "list"} : Len(EventsOf(trace[c], op)) <= 1
    /\ Len(EventsOf(trace[c], "fetch")) <= Len(folders[c])
    /\ \A i \in 1..Len(trace[c]), j \in 1..Len(trace[c]) :
          ( /\ i < j
            /\ trace[c][i].op = trace[c][j].op
            /\ trace[c][i].op \in {"fetch", "persist"} )
          => trace[c][i].folder # trace[c][j].folder

\* The ways an entry point ends: the gate's return, the return after the
\* loop, or the exception of a failed authentication or folder listing.
Ended(c) ==
    /\ pc[c] = "idle"
    /\ \/ outcome[c] = "aborted" /\ trace[c] = << >>
       \/ outcome[c] = "completed" /\ idx[c] = Len(folders[c]) + 1
       \/ /\ outcome[c] = "raised"
          /\ trace[c] # << >>
          /\ Last(trace[c]).op \in {"auth", "list"}
          /\ ~Last(trace[c]).ok

\* C30: every invocation of a run entry point terminates, by the gate's
\* return, by the return after the last listed folder, or by raising on a
\* failed authentication or listing; it processes each listed folder at most
\* once and retries nothing.
C30_RunTerminates ==
    /\ \A c \in Clients : (pc[c] # "idle") ~> (pc[c] = "idle")
    /\ [](\A c \in Clients :
             /\ OnePass(c)
             /\ (pc[c] = "idle" /\ outcome[c] \in {"aborted", "completed", "raised"})
                => Ended(c))

\* A run that went through all three listed folders and returned although a
\* fetch had failed: the failed folder was asked for once.
C30_Witness ==
    \E c \in Clients :
        /\ Completed(c)
        /\ Len(folders[c]) = 3
        /\ Len(EventsOf(trace[c], "fetch")) = 3
        /\ \E i \in 1..Len(trace[c]) : trace[c][i].op = "fetch" /\ ~trace[c][i].ok

====
